---- MODULE Spec2Model ----
(***************************************************************************)
(* Workspace authorization and membership lifecycle of vibe-kanban.        *)
(*                                                                         *)
(* Two deployments are modelled side by side:                              *)
(*   - the Owner-tier service (crates/services, crates/db; SQLite pool):   *)
(*     WorkspaceTeamService over WorkspaceMember / Role, every store call  *)
(*     an autocommitted statement on the pool;                             *)
(*   - the Admin-tier remote routes (crates/remote; Postgres): handlers    *)
(*     that run SELECT ... FOR UPDATE, a check and a write in one          *)
(*     transaction, and the invitation repository.                         *)
(***************************************************************************)
EXTENDS Integers, FiniteSets, Sequences, TLC

(* ------------------------------ bounds -------------------------------- *)
NumProcs == 2
NumUsers == 3
NumTeamUsers == 2
MaxMemberId == 3
MaxInv == 2
MaxTime == 14
MaxPermList == 2
InvitationTtl == 7
MaxRoleTime == 7

(* ---------------------- program constants ----------------------------- *)
OWNER == 1
ADMIN == 2
MEMBER == 3
VIEWER == 4

Procs == 1..NumProcs
Users == 1..NumUsers
TeamUsers == 1..NumTeamUsers
NoUser == 0
NoRow == [id |-> 0]
\* team 1 exists from the start; team 2 is an id with no team row
TeamIds == {1, 2}
SystemRoleIds == {OWNER, ADMIN, MEMBER, VIEWER}
\* an id no seeded role has; Role::create gives it to the custom role
NoSuchRole == 9
\* role ids a request may carry
RoleInputs == {OWNER, MEMBER, NoSuchRole}

VARIABLES
    teams,          \* workspace_teams: ids of the team rows
    roles,          \* roles: set of rows
    members,        \* workspace_members: set of rows
    nextMemberId,   \* next fresh row id (Uuid::new_v4)
    tpc,            \* service or store call of each process: position
    top,            \* service or store call of each process: operation and arguments
    tmember,        \* `member` read by find_by_team_and_user, `existing` read by Role::update
    tres,           \* result of the service or store call that returned last
    tlast,          \* serial runs: the process whose call began last
    tsnap           \* serial runs: workspace_members and the arguments when that call began

VARIABLES
    wmm,            \* workspace_member_metadata, committed rows: [workspace, user] -> row
    lock,           \* row locks of workspace_member_metadata: holder transaction, 0 if free
    rpc,            \* remote handler of each process: position
    rop,            \* remote handler of each process: request
    rrole,          \* `target_role` read under FOR UPDATE
    rtodo,          \* rows the running SELECT ... FOR UPDATE has still to lock
    radmins,        \* `admin_ids` read under FOR UPDATE
    rres,           \* response of the remote handler that returned last
    inv,            \* workspace_invitations, committed rows by id; the token of row i is i
    ilock,          \* row locks of workspace_invitations: holder transaction, 0 if free
    nextInv,        \* next fresh invitation id and token (Uuid::new_v4)
    now,            \* Utc::now(), in days
    acceptOk,       \* history: successful accept_invitation responses per token
    rlist,          \* rows of the list_invitations / get_invitation response returned last
    mailed          \* invitations whose e-mail was handed to the mailer

VARIABLES
    auth            \* the AuthContext check made last: call, role, arguments, result

teamVars == <<teams, roles, members, nextMemberId, tpc, top, tmember, tres, tlast, tsnap>>

memberVars == <<wmm, lock>>

handlerVars == <<rpc, rop, rrole, rtodo, radmins, rres>>

inviteVars == <<inv, ilock, nextInv, now, acceptOk, rlist, mailed>>

remoteVars == <<memberVars, handlerVars, inviteVars>>

vars == <<teamVars, remoteVars, auth>>

(* ====================================================================== *)
(* Owner-tier deployment: crates/db models and WorkspaceTeamService       *)
(* ====================================================================== *)

\* WorkspaceMember::find_by_team_and_user: fetch_optional
find_by_team_and_user(team, user) ==
    LET hit == {m \in members : m.team = team /\ m.user = user}
    IN  IF hit = {} THEN NoRow ELSE CHOOSE m \in hit : TRUE

\* WorkspaceMember::count_by_role: SELECT COUNT(*)
count_by_role(team, role) ==
    Cardinality({m \in members : m.team = team /\ m.role = role})

\* the rows of the four system roles, seeded once
SeedRoles ==
    {[id |-> i,
      name |-> CASE i = OWNER -> "Owner" [] i = ADMIN -> "Admin"
                 [] i = MEMBER -> "Member" [] OTHER -> "Viewer",
      description |-> <<"system role">>, is_system |-> TRUE,
      created_at |-> 0, updated_at |-> 0] : i \in SystemRoleIds}

\* Role::find_by_id(...).is_some()
role_exists(role) == \E r \in roles : r.id = role

\* WorkspaceTeam::find_by_id(...).is_some()
team_exists(team) == team \in teams

\* the row INSERTed by WorkspaceMember::create
new_member_row(team, data) ==
    [id |-> nextMemberId, team |-> team, user |-> data.user,
     role |-> data.role, invited_by |-> data.invited_by, joined_at |-> now]

\* uniqueness of (workspace_team_id, user_id) enforced by the store
unique_violation(team, user) ==
    \E m \in members : m.team = team /\ m.user = user

\* a store without the reference from workspace_members.role_id to roles
foreign_key_violation_never(role) == FALSE

\* workspace_members.role_id references roles: no role row has the id
foreign_key_violation(role) == ~role_exists(role)

\* an UPDATE that also stamps the row as joined now
update_role_rejoined(id, role) ==
    {IF m.id = id THEN [m EXCEPT !.role = role, !.joined_at = now] ELSE m : m \in members}

\* UPDATE workspace_members SET role_id = $2 WHERE id = $1
update_role(id, role) ==
    {IF m.id = id THEN [m EXCEPT !.role = role] ELSE m : m \in members}

\* DELETE FROM workspace_members WHERE id = $1
delete(id) == {m \in members : m.id # id}

\* DELETE FROM workspace_members WHERE workspace_team_id = $1 AND user_id = $2
delete_by_team_and_user(team, user) ==
    {m \in members : ~(m.team = team /\ m.user = user)}

\* the rows left when a team row is deleted: its memberships go with it
cascade(team) == {m \in members : m.team # team}

\* a last-owner check that lets the only owner go
last_owner_off_by_one(owner_count) == owner_count < 1

\* remove_member: `owner_count <= 1`
last_owner(owner_count) == owner_count <= 1

\* a last-owner check that lets the only owner be demoted
last_owner_role_change_off_by_one(owner_count) == owner_count < 1

\* update_member_role: `owner_count <= 1`
last_owner_role_change(owner_count) == owner_count <= 1

\* update_member_role: `member.role_id == OWNER && new_role_id != OWNER`
leaves_owner(old_role, new_role) == old_role = OWNER /\ new_role # OWNER

AddOps ==
    [kind : {"add"}, team : TeamIds, user : TeamUsers, role : RoleInputs,
     invited_by : {NoUser, 1}]
UpdateOps ==
    [kind : {"update"}, team : TeamIds, user : TeamUsers, role : RoleInputs,
     invited_by : {NoUser}]
RemoveOps ==
    [kind : {"remove"}, team : TeamIds, user : TeamUsers, role : {OWNER},
     invited_by : {NoUser}]
\* create_team by a creator; `team` is the id WorkspaceTeam::create draws
CreateTeamOps ==
    [kind : {"create_team"}, team : TeamIds, user : TeamUsers, role : {OWNER},
     invited_by : {NoUser}]
\* delete_team(team_id)
DeleteTeamOps ==
    [kind : {"delete_team"}, team : TeamIds, user : {1}, role : {OWNER},
     invited_by : {NoUser}]
\* WorkspaceMember::delete_by_team_and_user(workspace_team_id, user_id)
StoreDeleteOps ==
    [kind : {"delete_by_team_and_user"}, team : TeamIds, user : TeamUsers, role : {OWNER},
     invited_by : {NoUser}]
NoOp == [kind |-> "none", team |-> 1, user |-> 1, role |-> OWNER, invited_by |-> NoUser]

\* the call returns r: its arguments and locals are dropped
TFinish(p, r) ==
    /\ tpc' = [tpc EXCEPT ![p] = "idle"]
    /\ tres' = r
    /\ top' = [top EXCEPT ![p] = NoOp]
    /\ tmember' = [tmember EXCEPT ![p] = NoRow]

\* the call goes on to its next store call with arguments o and local member m
TGoto(p, l, o, m) ==
    /\ tpc' = [tpc EXCEPT ![p] = l]
    /\ top' = [top EXCEPT ![p] = o]
    /\ tmember' = [tmember EXCEPT ![p] = m]
    /\ UNCHANGED tres

\* rows that calls in flight may still insert
PendingAdds ==
    Cardinality({q \in Procs : top[q].kind \in {"add", "create_team"} /\ tpc[q] # "idle"})

\* delete_team: WorkspaceTeam::delete and the test of the rows affected
svc_delete_team(p, o) ==
    /\ o \in DeleteTeamOps
    /\ IF team_exists(o.team)
       THEN /\ teams' = teams \ {o.team}
            /\ members' = cascade(o.team)
            /\ TFinish(p, "Ok")
       ELSE /\ TFinish(p, "TeamNotFound")
            /\ UNCHANGED <<teams, members>>
    /\ UNCHANGED <<roles, nextMemberId, remoteVars, auth>>

\* WorkspaceMember::delete_by_team_and_user called on the store: no
\* last-owner check; the result is the number of rows deleted
wm_delete_by_team_and_user(p, o) ==
    /\ o \in StoreDeleteOps
    /\ members' = delete_by_team_and_user(o.team, o.user)
    /\ TFinish(p, IF find_by_team_and_user(o.team, o.user) = NoRow THEN "Ok(0)" ELSE "Ok(1)")
    /\ UNCHANGED <<teams, roles, nextMemberId, remoteVars, auth>>

\* create_team, first store call: WorkspaceTeam::create with a fresh id (an
\* id whose team was deleted leaves no trace and stands for a new one)
svc_create_team_begin(p, o) ==
    /\ o \in CreateTeamOps
    /\ ~team_exists(o.team)
    /\ nextMemberId + PendingAdds <= MaxMemberId
    /\ teams' = teams \cup {o.team}
    /\ TGoto(p, "ct_member", o, NoRow)
    /\ UNCHANGED <<roles, members, nextMemberId, remoteVars, auth>>

\* create_team: WorkspaceMember::create of the creator, role OWNER, invited_by None
svc_create_team_member(p) ==
    /\ tpc[p] = "ct_member"
    /\ IF unique_violation(top[p].team, top[p].user) \/ foreign_key_violation(top[p].role)
       THEN /\ TFinish(p, "Database")
            /\ UNCHANGED <<members, nextMemberId>>
       ELSE /\ members' = members \cup {new_member_row(top[p].team, top[p])}
            /\ nextMemberId' = nextMemberId + 1
            /\ TFinish(p, "Ok")
    /\ UNCHANGED <<teams, roles, tlast, tsnap, remoteVars, auth>>

\* add_member, first store call: get_team
svc_add_member_begin(p, o) ==
    /\ o \in AddOps
    /\ nextMemberId + PendingAdds <= MaxMemberId
    /\ IF team_exists(o.team) THEN TGoto(p, "am_role", o, NoRow) ELSE TFinish(p, "TeamNotFound")
    /\ UNCHANGED <<teams, roles, members, nextMemberId, remoteVars, auth>>

\* add_member: Role::find_by_id
svc_add_member_role(p) ==
    /\ tpc[p] = "am_role"
    /\ IF role_exists(top[p].role) THEN TGoto(p, "am_find", top[p], tmember[p]) ELSE TFinish(p, "RoleNotFound")
    /\ UNCHANGED <<teams, roles, members, nextMemberId, tlast, tsnap, remoteVars, auth>>

\* an add_member that inserts without looking for an existing row
svc_add_member_find_skipped(p) ==
    /\ tpc[p] = "am_find"
    /\ TGoto(p, "am_create", top[p], tmember[p])
    /\ UNCHANGED <<teams, roles, members, nextMemberId, tlast, tsnap, remoteVars, auth>>

\* add_member: find_by_team_and_user(...).is_some()
svc_add_member_find(p) ==
    /\ tpc[p] = "am_find"
    /\ IF find_by_team_and_user(top[p].team, top[p].user) # NoRow
       THEN TFinish(p, "AlreadyMember")
       ELSE TGoto(p, "am_create", top[p], tmember[p])
    /\ UNCHANGED <<teams, roles, members, nextMemberId, tlast, tsnap, remoteVars, auth>>

\* add_member: WorkspaceMember::create
svc_add_member_create(p) ==
    /\ tpc[p] = "am_create"
    /\ IF unique_violation(top[p].team, top[p].user) \/ foreign_key_violation(top[p].role)
       THEN /\ TFinish(p, "Database")
            /\ UNCHANGED <<members, nextMemberId>>
       ELSE /\ members' = members \cup {new_member_row(top[p].team, top[p])}
            /\ nextMemberId' = nextMemberId + 1
            /\ TFinish(p, "Ok")
    /\ UNCHANGED <<teams, roles, tlast, tsnap, remoteVars, auth>>

\* update_member_role that looks up the role before the member
svc_update_member_role_begin_role_first(p, o) ==
    /\ o \in UpdateOps
    /\ LET member == find_by_team_and_user(o.team, o.user)
       IN  IF ~role_exists(o.role) THEN TFinish(p, "RoleNotFound")
           ELSE IF member = NoRow THEN TFinish(p, "MemberNotFound")
           ELSE TGoto(p, "um_role", o, member)
    /\ UNCHANGED <<teams, roles, members, nextMemberId, remoteVars, auth>>

\* update_member_role, first store call: find_by_team_and_user
svc_update_member_role_begin(p, o) ==
    /\ o \in UpdateOps
    /\ LET member == find_by_team_and_user(o.team, o.user)
       IN  IF member = NoRow THEN TFinish(p, "MemberNotFound") ELSE TGoto(p, "um_role", o, member)
    /\ UNCHANGED <<teams, roles, members, nextMemberId, remoteVars, auth>>

\* update_member_role: Role::find_by_id, then the branch on the owner role
svc_update_member_role_role(p) ==
    /\ tpc[p] = "um_role"
    /\ IF ~role_exists(top[p].role) THEN TFinish(p, "RoleNotFound")
       ELSE IF leaves_owner(tmember[p].role, top[p].role) THEN TGoto(p, "um_count", top[p], tmember[p])
       ELSE TGoto(p, "um_update", top[p], tmember[p])
    /\ UNCHANGED <<teams, roles, members, nextMemberId, tlast, tsnap, remoteVars, auth>>

\* update_member_role: count_by_role and the last-owner check
svc_update_member_role_count(p) ==
    /\ tpc[p] = "um_count"
    /\ IF last_owner_role_change(count_by_role(top[p].team, OWNER))
       THEN TFinish(p, "LastOwnerRoleChange")
       ELSE TGoto(p, "um_update", top[p], tmember[p])
    /\ UNCHANGED <<teams, roles, members, nextMemberId, tlast, tsnap, remoteVars, auth>>

\* update_member_role: WorkspaceMember::update_role (fetch_one)
svc_update_member_role_update(p) ==
    /\ tpc[p] = "um_update"
    /\ IF (\E m \in members : m.id = tmember[p].id) /\ ~foreign_key_violation(top[p].role)
       THEN /\ members' = update_role(tmember[p].id, top[p].role)
            /\ TFinish(p, "Ok")
       ELSE /\ TFinish(p, "Database")
            /\ UNCHANGED members
    /\ UNCHANGED <<teams, roles, nextMemberId, tlast, tsnap, remoteVars, auth>>

\* remove_member, first store call: find_by_team_and_user
svc_remove_member_begin(p, o) ==
    /\ o \in RemoveOps
    /\ LET member == find_by_team_and_user(o.team, o.user)
       IN  IF member = NoRow THEN TFinish(p, "MemberNotFound")
           ELSE IF member.role = OWNER THEN TGoto(p, "rm_count", o, member)
           ELSE TGoto(p, "rm_delete", o, member)
    /\ UNCHANGED <<teams, roles, members, nextMemberId, remoteVars, auth>>

\* remove_member: count_by_role and the last-owner check
svc_remove_member_count(p) ==
    /\ tpc[p] = "rm_count"
    /\ IF last_owner(count_by_role(top[p].team, OWNER))
       THEN TFinish(p, "LastOwner")
       ELSE TGoto(p, "rm_delete", top[p], tmember[p])
    /\ UNCHANGED <<teams, roles, members, nextMemberId, tlast, tsnap, remoteVars, auth>>

\* remove_member: WorkspaceMember::delete
svc_remove_member_delete(p) ==
    /\ tpc[p] = "rm_delete"
    /\ members' = delete(tmember[p].id)
    /\ TFinish(p, "Ok")
    /\ UNCHANGED <<teams, roles, nextMemberId, tlast, tsnap, remoteVars, auth>>

\* a request arrives while other calls may be in flight
TeamCall(p) ==
    /\ tpc[p] = "idle"
    /\ \E o \in AddOps \cup UpdateOps \cup RemoveOps :
          \/ svc_add_member_begin(p, o)
          \/ svc_update_member_role_begin(p, o)
          \/ svc_remove_member_begin(p, o)
    /\ UNCHANGED <<tlast, tsnap>>

\* a create_team request arrives
CreateTeamCall(p) ==
    /\ tpc[p] = "idle"
    /\ \E o \in CreateTeamOps : svc_create_team_begin(p, o)
    /\ UNCHANGED <<tlast, tsnap>>

\* a request arrives while no other call is in flight
TeamCallAlone(p) ==
    /\ \A q \in Procs : tpc[q] = "idle"
    /\ \E o \in AddOps \cup UpdateOps \cup RemoveOps \cup CreateTeamOps :
          /\ \/ svc_create_team_begin(p, o)
             \/ svc_add_member_begin(p, o)
             \/ svc_update_member_role_begin(p, o)
             \/ svc_remove_member_begin(p, o)
          /\ tlast' = p
          /\ tsnap' = [members |-> members, op |-> o]

\* a delete_team, or a delete_by_team_and_user on the store, arrives while
\* no other call is in flight; each is one statement
TeamDeleteAlone(p) ==
    /\ \A q \in Procs : tpc[q] = "idle"
    /\ \E o \in DeleteTeamOps \cup StoreDeleteOps :
          /\ \/ svc_delete_team(p, o)
             \/ wm_delete_by_team_and_user(p, o)
          /\ tlast' = p
          /\ tsnap' = [members |-> members, op |-> o]

TeamStep(p) ==
    \/ svc_add_member_role(p)
    \/ svc_add_member_find(p)
    \/ svc_add_member_create(p)
    \/ svc_update_member_role_role(p)
    \/ svc_update_member_role_count(p)
    \/ svc_update_member_role_update(p)
    \/ svc_remove_member_count(p)
    \/ svc_remove_member_delete(p)

\* team 1 as create_team leaves it: its creator, user 1, is the only member, an Owner
TeamInit ==
    /\ teams = {1}
    /\ roles = SeedRoles
    /\ members = {[id |-> 1, team |-> 1, user |-> 1, role |-> OWNER, invited_by |-> NoUser,
                   joined_at |-> 0]}
    /\ nextMemberId = 2
    /\ tpc = [p \in Procs |-> "idle"]
    /\ top = [p \in Procs |-> NoOp]
    /\ tmember = [p \in Procs |-> NoRow]
    /\ tres = "none"
    /\ tlast = 0
    /\ tsnap = [members |-> {}, op |-> NoOp]

TeamNext == \E p \in Procs : TeamCall(p) \/ TeamStep(p)

\* create_team interleaved with the member calls
TeamCreateNext ==
    \E p \in Procs : CreateTeamCall(p) \/ svc_create_team_member(p) \/ TeamCall(p) \/ TeamStep(p)

\* every call of the service and of the store, one at a time
TeamSerialNext ==
    \E p \in Procs :
        TeamCallAlone(p) \/ TeamDeleteAlone(p) \/ svc_create_team_member(p) \/ TeamStep(p)

(* ---------------------------------------------------------------------- *)
(* Permission checks of the service                                       *)
(* ---------------------------------------------------------------------- *)

\* permission keys a caller may ask for
PermissionKeys == {"member.invite", "task.read"}

\* the seeded rows of role_permissions joined with permissions, as
\* (role_id, key): Owner and Admin hold both keys, Member and Viewer read only
role_permissions ==
    ({OWNER, ADMIN} \X PermissionKeys) \cup ({MEMBER, VIEWER} \X {"task.read"})

\* a query that leaves out `wm.workspace_team_id = $1`
wm_has_permission_any_team(team, user, key) ==
    \E m \in members : m.user = user /\ <<m.role, key>> \in role_permissions

\* WorkspaceMember::has_permission: EXISTS over workspace_members joined
\* with role_permissions and permissions
wm_has_permission(team, user, key) ==
    \E m \in members :
       m.team = team /\ m.user = user /\ <<m.role, key>> \in role_permissions

\* WorkspaceTeamServiceError::PermissionDenied(permission_key.to_string())
PermissionDenied(key) ==
    IF key = "member.invite" THEN "PermissionDenied(member.invite)"
    ELSE "PermissionDenied(task.read)"

\* a require_permission request arrives
svc_require_permission_begin(p, team, user, key) ==
    /\ tpc[p] = "idle"
    /\ TGoto(p, "rp_query",
             [kind |-> "require", team |-> team, user |-> user, role |-> OWNER,
              invited_by |-> NoUser, key |-> key], NoRow)
    /\ UNCHANGED <<teams, roles, members, nextMemberId, tlast, tsnap, remoteVars, auth>>

\* require_permission: has_permission(...).await?, then Err(PermissionDenied) or Ok(())
svc_require_permission(p) ==
    /\ tpc[p] = "rp_query"
    /\ IF ~wm_has_permission(top[p].team, top[p].user, top[p].key)
       THEN TFinish(p, PermissionDenied(top[p].key))
       ELSE TFinish(p, "Ok")
    /\ UNCHANGED <<teams, roles, members, nextMemberId, tlast, tsnap, remoteVars, auth>>

\* a require_permission request arrives while no other call is in flight
RequireCall(p) ==
    /\ \A q \in Procs : tpc[q] = "idle"
    /\ \E team \in TeamIds : \E user \in TeamUsers : \E key \in PermissionKeys :
          svc_require_permission_begin(p, team, user, key)

(* ====================================================================== *)
(* Role store: crates/db/src/models/role.rs                               *)
(* ====================================================================== *)

\* ids, names and descriptions a request may carry; an Option is <<>> or <<v>>
RoleIdInputs == {OWNER, NoSuchRole}
CreateRole == [name : {"Reviewer"}, description : {<<>>}]
UpdateRole == [name : {<<>>, <<"Auditor">>}, description : {<<>>, <<"renamed">>}]

\* the role Role::find_by_id returns, NoRow for None
find_by_id(id) ==
    LET hit == {r \in roles : r.id = id}
    IN  IF hit = {} THEN NoRow ELSE CHOOSE r \in hit : TRUE

\* roles.name is unique: another row holds the name
name_taken(name, id) == \E r \in roles : r.name = name /\ r.id # id

\* workspace_members.role_id references roles: a row refers to the role
role_referenced(id) == \E m \in members : m.role = id

\* Uuid::new_v4(): an id that no row has and no call in flight carries
fresh_role_id(id) ==
    /\ ~role_exists(id)
    /\ \A q \in Procs :
          tpc[q] = "idle" \/ (IF top[q].kind = "role_update" THEN top[q].id ELSE top[q].role) # id

\* Role::create: INSERT ... VALUES ($1, $2, $3, 0) with a fresh id
role_create(p, data) ==
    /\ tpc[p] = "idle"
    /\ fresh_role_id(NoSuchRole)
    /\ IF name_taken(data.name, NoSuchRole)
       THEN UNCHANGED roles /\ TFinish(p, "Database")
       ELSE /\ roles' = roles \cup
                    {[id |-> NoSuchRole, name |-> data.name, description |-> data.description,
                      is_system |-> FALSE, created_at |-> now, updated_at |-> now]}
            /\ TFinish(p, "Ok")
    /\ UNCHANGED <<teams, members, nextMemberId, tlast, tsnap, remoteVars, auth>>

\* Role::update, first statement: find_by_id(...).ok_or(RowNotFound)
role_update_find(p, id, data) ==
    /\ tpc[p] = "idle"
    /\ LET existing == find_by_id(id)
       IN  IF existing = NoRow THEN TFinish(p, "RowNotFound")
           ELSE TGoto(p, "role_update", [kind |-> "role_update", id |-> id, data |-> data], existing)
    /\ UNCHANGED <<teams, roles, members, nextMemberId, tlast, tsnap, remoteVars, auth>>

\* an update that keeps every field the role already has
supplied_or_existing_keeps(supplied, existing) == IF existing # <<>> THEN existing ELSE supplied

\* `data.name.clone().unwrap_or(existing.name)`, `data.description.clone().or(existing.description)`
supplied_or_existing(supplied, existing) == IF supplied # <<>> THEN supplied ELSE existing

\* the row UPDATE roles SET name = $2, description = $3, updated_at = now writes
updated_role(row, data, existing) ==
    [row EXCEPT !.name = supplied_or_existing(data.name, <<existing.name>>)[1],
                !.description = supplied_or_existing(data.description, existing.description),
                !.updated_at = now]

\* Role::update, second statement: UPDATE ... WHERE id = $1 RETURNING, fetch_one
role_update_write(p) ==
    /\ tpc[p] = "role_update"
    /\ LET row == find_by_id(top[p].id)
           new == updated_role(row, top[p].data, tmember[p])
       IN  IF row = NoRow THEN UNCHANGED roles /\ TFinish(p, "RowNotFound")
           ELSE IF name_taken(new.name, row.id) THEN UNCHANGED roles /\ TFinish(p, "Database")
           ELSE roles' = (roles \ {row}) \cup {new} /\ TFinish(p, "Ok")
    /\ UNCHANGED <<teams, members, nextMemberId, tlast, tsnap, remoteVars, auth>>

\* Role::delete: DELETE FROM roles WHERE id = $1 AND is_system = 0; Ok(rows_affected)
role_delete(p, id) ==
    /\ tpc[p] = "idle"
    /\ LET rows == {r \in roles : r.id = id /\ ~r.is_system}
       IN  IF rows # {} /\ role_referenced(id)
           THEN UNCHANGED roles /\ TFinish(p, "Database")
           ELSE roles' = roles \ rows /\ TFinish(p, IF rows = {} THEN "Ok(0)" ELSE "Ok(1)")
    /\ UNCHANGED <<teams, members, nextMemberId, tlast, tsnap, remoteVars, auth>>

RoleCall(p) ==
    \/ \E data \in CreateRole : role_create(p, data)
    \/ \E id \in RoleIdInputs : \E data \in UpdateRole : role_update_find(p, id, data)
    \/ \E id \in RoleIdInputs : role_delete(p, id)

RoleStep(p) == role_update_write(p)

(* ====================================================================== *)
(* Enumerated roles: crates/server/src/middleware/authorization.rs        *)
(* ====================================================================== *)

\* enum Permission; the variant OwnTaskUpdate is <<"Own", "Task", "Update">>
Permission ==
    {<<o, r, v>> : o \in {"", "Own"}, r \in {"Task", "Workspace", "Session"},
                   v \in {"Read", "Update", "Delete"}}
    \cup {<<"", r, "Create">> : r \in {"Task", "Workspace", "Session"}}
    \cup {<<"", "Project", v>> : v \in {"Read", "Create", "Update", "Delete"}}
    \cup {<<"", "Admin", "Access">>}

AuthRoles == {"Admin", "Member", "Viewer"}

\* an Admin arm that leaves out AdminAccess
AdminPermissions_without_access ==
    {<<o, r, v>> : o \in {"", "Own"}, r \in {"Task", "Workspace", "Session"},
                   v \in {"Read", "Update", "Delete"}}
    \cup {<<"", r, "Create">> : r \in {"Task", "Workspace", "Session"}}
    \cup {<<"", "Project", v>> : v \in {"Read", "Create", "Update", "Delete"}}

\* Role::permissions, arm Role::Admin: the 26 inserts
AdminPermissions ==
    {<<"", "Task", "Read">>, <<"", "Task", "Create">>, <<"", "Task", "Update">>,
     <<"", "Task", "Delete">>, <<"Own", "Task", "Read">>, <<"Own", "Task", "Update">>,
     <<"Own", "Task", "Delete">>,
     <<"", "Workspace", "Read">>, <<"", "Workspace", "Create">>,
     <<"", "Workspace", "Update">>, <<"", "Workspace", "Delete">>,
     <<"Own", "Workspace", "Read">>, <<"Own", "Workspace", "Update">>,
     <<"Own", "Workspace", "Delete">>,
     <<"", "Session", "Read">>, <<"", "Session", "Create">>, <<"", "Session", "Update">>,
     <<"", "Session", "Delete">>, <<"Own", "Session", "Read">>,
     <<"Own", "Session", "Update">>, <<"Own", "Session", "Delete">>,
     <<"", "Project", "Read">>, <<"", "Project", "Create">>, <<"", "Project", "Update">>,
     <<"", "Project", "Delete">>,
     <<"", "Admin", "Access">>}

\* a Member arm that also inserts TaskUpdate
MemberPermissions_with_task_update ==
    {<<"", "Task", "Read">>, <<"", "Task", "Create">>, <<"", "Task", "Update">>,
     <<"Own", "Task", "Read">>, <<"Own", "Task", "Update">>, <<"Own", "Task", "Delete">>,
     <<"", "Workspace", "Read">>, <<"", "Workspace", "Create">>,
     <<"Own", "Workspace", "Read">>, <<"Own", "Workspace", "Update">>,
     <<"Own", "Workspace", "Delete">>,
     <<"", "Session", "Read">>, <<"", "Session", "Create">>,
     <<"Own", "Session", "Read">>, <<"Own", "Session", "Update">>,
     <<"Own", "Session", "Delete">>,
     <<"", "Project", "Read">>}

\* Role::permissions, arm Role::Member
MemberPermissions ==
    {<<"", "Task", "Read">>, <<"", "Task", "Create">>,
     <<"Own", "Task", "Read">>, <<"Own", "Task", "Update">>, <<"Own", "Task", "Delete">>,
     <<"", "Workspace", "Read">>, <<"", "Workspace", "Create">>,
     <<"Own", "Workspace", "Read">>, <<"Own", "Workspace", "Update">>,
     <<"Own", "Workspace", "Delete">>,
     <<"", "Session", "Read">>, <<"", "Session", "Create">>,
     <<"Own", "Session", "Read">>, <<"Own", "Session", "Update">>,
     <<"Own", "Session", "Delete">>,
     <<"", "Project", "Read">>}

\* Role::permissions, arm Role::Viewer
ViewerPermissions ==
    {<<"", "Task", "Read">>, <<"Own", "Task", "Read">>,
     <<"", "Workspace", "Read">>, <<"Own", "Workspace", "Read">>,
     <<"", "Session", "Read">>, <<"Own", "Session", "Read">>,
     <<"", "Project", "Read">>}

\* Role::permissions
permissions(role) ==
    CASE role = "Admin" -> AdminPermissions
      [] role = "Member" -> MemberPermissions
      [] role = "Viewer" -> ViewerPermissions

\* AuthContext::has_permission
ctx_has_permission(role, permission) == permission \in permissions(role)

RECURSIVE iter_any(_, _)
\* Iterator::any over the slice, left to right
iter_any(ps, user_perms) ==
    IF ps = <<>> THEN FALSE
    ELSE IF Head(ps) \in user_perms THEN TRUE ELSE iter_any(Tail(ps), user_perms)

RECURSIVE iter_all(_, _)
\* Iterator::all over the slice, left to right
iter_all(ps, user_perms) ==
    IF ps = <<>> THEN TRUE
    ELSE IF Head(ps) \in user_perms THEN iter_all(Tail(ps), user_perms) ELSE FALSE

\* a has_any_permission that looks at the first permission only
has_any_permission_first_only(role, ps) == ps # <<>> /\ Head(ps) \in permissions(role)

\* AuthContext::has_any_permission
has_any_permission(role, ps) == iter_any(ps, permissions(role))

\* AuthContext::has_all_permissions
has_all_permissions(role, ps) == iter_all(ps, permissions(role))

\* the slices of permissions a caller passes
PermLists == UNION {[1..n -> Permission] : n \in 0..MaxPermList}

\* no check made yet
NoAuth == [call |-> "none", role |-> "Admin", perms |-> <<>>, result |-> FALSE]

auth_has_permission(role, permission) ==
    /\ auth = NoAuth
    /\ auth' = [call |-> "has_permission", role |-> role, perms |-> <<permission>>,
                result |-> ctx_has_permission(role, permission)]
    /\ UNCHANGED <<teamVars, remoteVars>>

auth_has_any_permission(role, ps) ==
    /\ auth = NoAuth
    /\ auth' = [call |-> "has_any_permission", role |-> role, perms |-> ps,
                result |-> has_any_permission(role, ps)]
    /\ UNCHANGED <<teamVars, remoteVars>>

auth_has_all_permissions(role, ps) ==
    /\ auth = NoAuth
    /\ auth' = [call |-> "has_all_permissions", role |-> role, perms |-> ps,
                result |-> has_all_permissions(role, ps)]
    /\ UNCHANGED <<teamVars, remoteVars>>

\* task ids a check may name
TaskIds == {1, 2}

\* an ownership check that finds no owner
is_task_owner_never(role, task_id) == FALSE

\* is_task_owner: ownership is not tracked, the answer is `true`
is_task_owner(role, task_id) == TRUE

\* can_access_task, can_edit_task, can_delete_task: the global permission,
\* else the Own* permission and the ownership check
can_access_task(role, task_id) ==
    IF ctx_has_permission(role, <<"", "Task", "Read">>) THEN TRUE
    ELSE IF ctx_has_permission(role, <<"Own", "Task", "Read">>) THEN is_task_owner(role, task_id)
    ELSE FALSE

can_edit_task(role, task_id) ==
    IF ctx_has_permission(role, <<"", "Task", "Update">>) THEN TRUE
    ELSE IF ctx_has_permission(role, <<"Own", "Task", "Update">>) THEN is_task_owner(role, task_id)
    ELSE FALSE

can_delete_task(role, task_id) ==
    IF ctx_has_permission(role, <<"", "Task", "Delete">>) THEN TRUE
    ELSE IF ctx_has_permission(role, <<"Own", "Task", "Delete">>) THEN is_task_owner(role, task_id)
    ELSE FALSE

auth_can_task(role, task_id) ==
    /\ auth = NoAuth
    /\ \/ auth' = [call |-> "can_access_task", role |-> role, perms |-> <<>>,
                    result |-> can_access_task(role, task_id)]
       \/ auth' = [call |-> "can_edit_task", role |-> role, perms |-> <<>>,
                    result |-> can_edit_task(role, task_id)]
       \/ auth' = [call |-> "can_delete_task", role |-> role, perms |-> <<>>,
                    result |-> can_delete_task(role, task_id)]
    /\ UNCHANGED <<teamVars, remoteVars>>

\* the AuthContext a request's extensions may hold: none (<<>>) or one
Extensions ==
    {<<>>} \cup {<<[user_id |-> u, role |-> role]>> : u \in {NoUser, 1}, role \in AuthRoles}

\* AuthContext::default(): no user id, role Admin
default_context == [user_id |-> NoUser, role |-> "Admin"]

\* request.extensions().get::<AuthContext>().cloned().unwrap_or_default()
unwrap_or_default(extension) == IF extension = <<>> THEN default_context ELSE extension[1]

\* a middleware that runs the next handler before it checks
require_permission_inner_run_first(extension, permission) ==
    IF ~ctx_has_permission(unwrap_or_default(extension).role, permission)
    THEN [status |-> "FORBIDDEN", next_ran |-> TRUE]
    ELSE [status |-> "Next", next_ran |-> TRUE]

\* require_permission_inner: Err(FORBIDDEN), or the response of next.run
require_permission_inner(extension, permission) ==
    IF ~ctx_has_permission(unwrap_or_default(extension).role, permission)
    THEN [status |-> "FORBIDDEN", next_ran |-> FALSE]
    ELSE [status |-> "Next", next_ran |-> TRUE]

auth_require_permission(extension, permission) ==
    /\ auth = NoAuth
    /\ auth' = [call |-> "require_permission", role |-> unwrap_or_default(extension).role,
                perms |-> <<permission>>, extension |-> extension,
                result |-> require_permission_inner(extension, permission)]
    /\ UNCHANGED <<teamVars, remoteVars>>

AuthInit == auth = NoAuth

AuthNext ==
    \/ \E role \in AuthRoles :
          \/ \E permission \in Permission : auth_has_permission(role, permission)
          \/ \E ps \in PermLists : auth_has_any_permission(role, ps)
          \/ \E ps \in PermLists : auth_has_all_permissions(role, ps)
          \/ \E task_id \in TaskIds : auth_can_task(role, task_id)
    \/ \E extension \in Extensions : \E permission \in Permission :
          auth_require_permission(extension, permission)

(* ====================================================================== *)
(* Admin-tier deployment: crates/remote (Postgres, READ COMMITTED)        *)
(* ====================================================================== *)

Workspaces == {1, 2}
Permissions == {"member.invite", "member.remove", "member.role.change"}
NoMember == [role |-> "none", permissions |-> {}]
Keys == Workspaces \X Users

\* a membership test that finds nobody
is_member_never(w, u) == FALSE

\* a row of the workspace exists for the user
is_member(w, u) == wmm[w, u].role # "none"

\* check_user_role: SELECT role ... fetch_optional, "none" for no row
check_user_role(w, u) == wmm[w, u].role

\* an EXISTS query without the `$3 = ANY(permissions)` condition
permission_in_array_any_member(w, u, perm) == is_member(w, u)

\* has_permission, second query: EXISTS(... AND $3 = ANY(permissions))
permission_in_array(w, u, perm) == is_member(w, u) /\ perm \in wmm[w, u].permissions

\* has_permission on one state of the table: Admins have all permissions,
\* anyone else what the second query finds
has_permission(w, u, perm) ==
    IF check_user_role(w, u) = "admin" THEN TRUE ELSE permission_in_array(w, u, perm)

\* rows matching `workspace_id = $1 AND role = 'admin'`
admin_rows(w) == {u \in Users : wmm[w, u].role = "admin"}

\* no last-admin check at all
is_last_admin_unchecked(admin_ids, user_id) == FALSE

\* `admin_ids.len() == 1 && admin_ids[0] == user_id`
is_last_admin(admin_ids, user_id) == admin_ids = {user_id}

InvIds == 1..MaxInv
Emails == {"alice@example.com"}
NoInv == [ws |-> 0, invited_by |-> NoUser, email |-> "", role |-> "member",
          status |-> "none", expires_at |-> 0, created_at |-> 0]

NoReq == [kind |-> "none", ws |-> 1, caller |-> 1, target |-> 1, role |-> "member",
          inv |-> 0, email |-> "", expires_at |-> 0]
\* a request of the given kind; the fields a handler does not read keep NoReq's values
Req(kind, ws, caller, target, role, i, email) ==
    [kind |-> kind, ws |-> ws, caller |-> caller, target |-> target, role |-> role,
     inv |-> i, email |-> email, expires_at |-> 0]
\* the workspace the requests of SpecRemote and SpecInvite are for
Addressed == {1}
RemoveReqs == {Req("remove", w, c, t, "member", 0, "") : w \in Addressed, c \in Users, t \in Users}
UpdateReqs ==
    {Req("update", w, c, t, r, 0, "") :
        w \in Addressed, c \in Users, t \in Users, r \in {"admin", "member"}}
InviteReqs ==
    {Req("invite", w, c, 1, r, 0, e) :
        w \in Addressed, c \in Users, r \in {"member"}, e \in Emails}
ListReqs == {Req("list", w, c, 1, "member", 0, "") : w \in Addressed, c \in Users}
GetReqs == {Req("get", 1, 1, 1, "member", i, "") : i \in InvIds}
RevokeReqs == {Req("revoke", w, c, 1, "member", i, "") : w \in Addressed, c \in Users, i \in InvIds}
\* requests for any workspace; the invitations are for the Admin role
InviteReqsAcross ==
    {Req("invite", w, c, 1, r, 0, e) :
        w \in Workspaces, c \in Users, r \in {"admin"}, e \in Emails}
ListReqsAcross == {Req("list", w, c, 1, "member", 0, "") : w \in Workspaces, c \in Users}
RevokeReqsAcross ==
    {Req("revoke", w, c, 1, "member", i, "") : w \in Workspaces, c \in Users, i \in InvIds}
AcceptReqs == {Req("accept", 1, c, 1, "member", i, "") : c \in Users, i \in InvIds}

\* the permission a handler asserts
required_permission(o) ==
    IF o.kind = "remove" THEN "member.remove"
    ELSE IF o.kind = "update" THEN "member.role.change"
    ELSE "member.invite"

\* locks of transaction p are released (commit, rollback, or tx dropped on return)
release(p) == [k \in Keys |-> IF lock[k] = p THEN 0 ELSE lock[k]]
irelease(p) == [i \in InvIds |-> IF ilock[i] = p THEN 0 ELSE ilock[i]]

\* the handler returns response r with the rows in its body, and forgets
\* its request and locals
RReturnRows(p, r, rows) ==
    /\ rpc' = [rpc EXCEPT ![p] = "idle"]
    /\ rop' = [rop EXCEPT ![p] = NoReq]
    /\ rrole' = [rrole EXCEPT ![p] = "none"]
    /\ rtodo' = [rtodo EXCEPT ![p] = {}]
    /\ radmins' = [radmins EXCEPT ![p] = {}]
    /\ rres' = r
    /\ rlist' = rows
    /\ UNCHANGED <<teamVars, auth>>

RReturn(p, r) == RReturnRows(p, r, {})

\* the handler returns response r; its transaction, if any, ends and leaves
\* workspace_member_metadata as w2 and workspace_invitations untouched
RFinish(p, r, w2) ==
    /\ RReturn(p, r)
    /\ wmm' = w2
    /\ lock' = release(p)
    /\ ilock' = irelease(p)
    /\ UNCHANGED <<inv, nextInv, now, acceptOk, mailed>>

\* the handler goes on to position l
RGoto(p, l) ==
    /\ rpc' = [rpc EXCEPT ![p] = l]
    /\ UNCHANGED <<rres, wmm, inv, nextInv, now, acceptOk, rlist, mailed, teamVars, auth>>

\* a handler without the self check
acts_on_self_never(o) == FALSE

\* a self check that refuses every request of a caller about their own row
acts_on_self_whatever_role(o) == o.caller = o.target

\* remove_member: `user.id == user_id`; update_member_role: `... && payload.role == Member`
acts_on_self(o) ==
    /\ o.caller = o.target
    /\ o.kind = "update" => o.role = "member"

self_error(o) == IF o.kind = "remove" THEN "CannotRemoveYourself" ELSE "CannotDemoteYourself"

\* a request arrives: the self check, then has_permission's first query (check_user_role)
route_begin(p, o) ==
    /\ rpc[p] = "idle"
    /\ IF acts_on_self(o)
       THEN RFinish(p, self_error(o), wmm)
       ELSE /\ rop' = [rop EXCEPT ![p] = o]
            /\ UNCHANGED <<rrole, rtodo, radmins, lock, ilock>>
            /\ IF check_user_role(o.ws, o.caller) = "admin"
               THEN RGoto(p, "select_target")
               ELSE RGoto(p, "permission")

\* a route that opens the transaction without assert_permission
route_permission_unchecked(p) ==
    /\ rpc[p] = "permission"
    /\ RGoto(p, "select_target") /\ UNCHANGED <<rop, rrole, rtodo, radmins, lock, ilock>>

\* has_permission, second query, and assert_permission
route_permission(p) ==
    /\ rpc[p] = "permission"
    /\ IF permission_in_array(rop[p].ws, rop[p].caller, required_permission(rop[p]))
       THEN RGoto(p, "select_target") /\ UNCHANGED <<rop, rrole, rtodo, radmins, lock, ilock>>
       ELSE RFinish(p, "PermissionDenied", wmm)

\* SELECT role ... WHERE workspace_id = $1 AND user_id = $2 FOR UPDATE: the
\* statement's snapshot finds the row or not
route_select_target(p) ==
    /\ rpc[p] = "select_target"
    /\ IF is_member(rop[p].ws, rop[p].target)
       THEN /\ RGoto(p, "lock_target")
            /\ rtodo' = [rtodo EXCEPT ![p] = {rop[p].target}]
            /\ UNCHANGED <<rop, rrole, radmins, lock, ilock>>
       ELSE RFinish(p, "MemberNotFound", wmm)

\* a handler that writes without reading the Admin rows
after_target_unguarded(o, target_role) == "write"

\* where the handler goes once it knows target_role
after_target(o, target_role) ==
    IF o.kind = "remove"
    THEN IF target_role = "admin" THEN "select_admins" ELSE "write"
    ELSE IF target_role = "admin" /\ o.role = "member" THEN "select_admins" ELSE "write"

\* a handler that goes on to the last-admin check and the UPDATE also when
\* the target has the requested role already
route_lock_target_no_shortcut(p) ==
    /\ rpc[p] = "lock_target"
    /\ lock[rop[p].ws, rop[p].target] = 0
    /\ LET o == rop[p]
           target_role == wmm[o.ws, o.target].role
       IN  IF target_role = "none"
           THEN RFinish(p, "MemberNotFound", wmm)
           ELSE /\ RGoto(p, IF target_role = "admin" THEN "select_admins" ELSE "write")
                /\ lock' = [lock EXCEPT ![o.ws, o.target] = p]
                /\ rrole' = [rrole EXCEPT ![p] = target_role]
                /\ rtodo' = [rtodo EXCEPT ![p] = {}]
                /\ UNCHANGED <<rop, radmins, ilock>>

\* UpdateWorkspaceMemberRoleResponse { user_id, role: payload.role }
update_response(o) == <<o.target, o.role>>

\* ... FOR UPDATE: the row lock is granted; the row is read again as committed now
route_lock_target(p) ==
    /\ rpc[p] = "lock_target"
    /\ lock[rop[p].ws, rop[p].target] = 0
    /\ LET o == rop[p]
           target_role == wmm[o.ws, o.target].role
       IN  IF target_role = "none"
           THEN RFinish(p, "MemberNotFound", wmm)
           ELSE IF o.kind = "update" /\ target_role = o.role
           THEN RFinish(p, "Ok", wmm)
           ELSE /\ RGoto(p, after_target(o, target_role))
                /\ lock' = [lock EXCEPT ![o.ws, o.target] = p]
                /\ rrole' = [rrole EXCEPT ![p] = target_role]
                /\ rtodo' = [rtodo EXCEPT ![p] = {}]
                /\ UNCHANGED <<rop, radmins, ilock>>

\* SELECT user_id ... WHERE workspace_id = $1 AND role = 'admin' FOR UPDATE:
\* the statement's snapshot gives the rows it will lock
route_select_admins(p) ==
    /\ rpc[p] = "select_admins"
    /\ LET found == admin_rows(rop[p].ws)
           mine == {u \in found : lock[rop[p].ws, u] = p}
       IN  /\ rtodo' = [rtodo EXCEPT ![p] = found \ mine]
           /\ radmins' = [radmins EXCEPT ![p] = mine]
    /\ RGoto(p, "lock_admins")
    /\ UNCHANGED <<rop, rrole, lock, ilock>>

\* ... FOR UPDATE: one more row lock is granted; a row that is no longer an
\* admin row as committed now is skipped
route_lock_admin(p) ==
    /\ rpc[p] = "lock_admins"
    /\ \E u \in rtodo[p] :
          /\ lock[rop[p].ws, u] = 0
          /\ rtodo' = [rtodo EXCEPT ![p] = @ \ {u}]
          /\ IF wmm[rop[p].ws, u].role = "admin"
             THEN /\ radmins' = [radmins EXCEPT ![p] = @ \cup {u}]
                  /\ lock' = [lock EXCEPT ![rop[p].ws, u] = p]
             ELSE /\ UNCHANGED radmins
                  /\ lock' = IF is_member(rop[p].ws, u)
                             THEN [lock EXCEPT ![rop[p].ws, u] = p] ELSE lock
    /\ UNCHANGED <<rpc, rop, rrole, rres, wmm, ilock, inv, nextInv, now, acceptOk, rlist, mailed, teamVars, auth>>

conflict_error(o) == IF o.kind = "remove" THEN "CannotRemoveLastAdmin" ELSE "CannotDemoteLastAdmin"

\* the last-admin check on admin_ids
route_check_admins(p) ==
    /\ rpc[p] = "lock_admins"
    /\ rtodo[p] = {}
    /\ IF is_last_admin(radmins[p], rop[p].target)
       THEN RFinish(p, conflict_error(rop[p]), wmm)
       ELSE RGoto(p, "write") /\ UNCHANGED <<rop, rrole, rtodo, radmins, lock, ilock>>

\* the table once the DELETE / UPDATE of request o is committed
written(o) ==
    IF o.kind = "remove"
    THEN [wmm EXCEPT ![o.ws, o.target] = NoMember]
    ELSE [wmm EXCEPT ![o.ws, o.target].role = o.role]

\* DELETE FROM / UPDATE workspace_member_metadata ... inside the transaction
route_write(p) ==
    /\ rpc[p] = "write"
    /\ RGoto(p, "commit")
    /\ UNCHANGED <<rop, rrole, rtodo, radmins, lock, ilock>>

\* tx.commit() and the success response
route_commit(p) ==
    /\ rpc[p] = "commit"
    /\ RFinish(p, "Ok", written(rop[p]))

(* ---------------------------------------------------------------------- *)
(* Invitations: routes/workspace_members.rs and db/workspace_invitations.rs *)
(* ---------------------------------------------------------------------- *)

\* `Utc::now() + Duration::days(7)`
expiry(t) == t + InvitationTtl

\* an expiry check that compares the wrong way round
is_expired_reversed(expires_at, t) == t < expires_at

\* `invitation.expires_at < Utc::now()`
is_expired(expires_at, t) == expires_at < t

\* a lookup by token without the status filter
pending_by_token_any_status(token) == inv[token].status # "none"

\* rows matching `WHERE token = $1 AND status = 'pending'`
pending_by_token(token) == inv[token].status = "pending"

\* rows matching `WHERE token = $1`, and `WHERE id = $1 AND workspace_id = $2`
invitation_exists(i) == inv[i].status # "none"

\* a lookup by id that ignores the workspace
invitation_in_any_workspace(i, w) == invitation_exists(i)

invitation_in(i, w) == invitation_exists(i) /\ inv[i].ws = w

\* an insert that leaves a conflicting row as it is
add_member_do_nothing(w, u, role) ==
    [wmm EXCEPT ![w, u] = IF is_member(w, u) THEN @
                          ELSE [role |-> role, permissions |-> {}]]

\* add_member: INSERT ... ON CONFLICT (workspace_id, user_id) DO UPDATE SET role
add_member(w, u, role) ==
    [wmm EXCEPT ![w, u] = IF is_member(w, u) THEN [@ EXCEPT !.role = role]
                          ELSE [role |-> role, permissions |-> {}]]

\* the row whose status a transaction has updated and not yet committed
updating(i) == ilock[i] # 0 /\ rpc[ilock[i]] \in {"accept_expire_commit", "accept_commit"}

\* no unique index on pending invitations
pending_for_none(w, email) == {}

\* pending rows of the pair (workspace, email): the rows the unique index
\* on pending invitations holds for it
pending_for(w, email) ==
    {i \in InvIds : inv[i].status = "pending" /\ inv[i].ws = w /\ inv[i].email = email}

\* invite_member handlers that may still insert a row
PendingInvites == Cardinality({q \in Procs : rpc[q] \in {"invite_permission", "invite_admin", "invite_insert"}})

\* invite_member: has_permission's first query (check_user_role); an Admin
\* passes assert_permission, and the handler computes expires_at
invite_begin(p, o) ==
    /\ rpc[p] = "idle"
    /\ nextInv + PendingInvites <= MaxInv
    /\ IF check_user_role(o.ws, o.caller) = "admin"
       THEN /\ RGoto(p, "invite_admin")
            /\ rop' = [rop EXCEPT ![p] = [o EXCEPT !.expires_at = expiry(now)]]
       ELSE /\ RGoto(p, "invite_permission")
            /\ rop' = [rop EXCEPT ![p] = o]
    /\ UNCHANGED <<rrole, rtodo, radmins, lock, ilock>>

\* has_permission's second query and assert_permission(MemberInvite)
invite_permission(p) ==
    /\ rpc[p] = "invite_permission"
    /\ IF permission_in_array(rop[p].ws, rop[p].caller, required_permission(rop[p]))
       THEN /\ RGoto(p, "invite_admin")
            /\ rop' = [rop EXCEPT ![p].expires_at = expiry(now)]
            /\ UNCHANGED <<rrole, rtodo, radmins, lock, ilock>>
       ELSE RFinish(p, "PermissionDenied", wmm)

\* an invite_member that hands the e-mail to the mailer before create_invitation
invite_admin_mail_first(p) ==
    /\ rpc[p] = "invite_admin"
    /\ mailed' = mailed \cup {nextInv}
    /\ rpc' = [rpc EXCEPT ![p] = "invite_insert"]
    /\ UNCHANGED <<rop, rrole, rtodo, radmins, rres, memberVars, inv, ilock, nextInv, now,
                   acceptOk, rlist, teamVars, auth>>

\* create_invitation without its assert_admin
invite_admin_skipped(p) ==
    /\ rpc[p] = "invite_admin"
    /\ RGoto(p, "invite_insert")
    /\ UNCHANGED <<rop, rrole, rtodo, radmins, lock, ilock>>

\* create_invitation: assert_admin
invite_admin(p) ==
    /\ rpc[p] = "invite_admin"
    /\ IF check_user_role(rop[p].ws, rop[p].caller) = "admin"
       THEN RGoto(p, "invite_insert") /\ UNCHANGED <<rop, rrole, rtodo, radmins, lock, ilock>>
       ELSE RFinish(p, "AdminAccessRequired", wmm)

\* the invitation create_invitation inserts at time t; status defaults to
\* pending and created_at to the time of the INSERT
new_invitation(o, t) ==
    [ws |-> o.ws, invited_by |-> o.caller, email |-> o.email, role |-> o.role,
     status |-> "pending", expires_at |-> o.expires_at, created_at |-> t]

\* create_invitation: the INSERT; a unique violation becomes the
\* "pending invitation already exists" error. The INSERT waits while the
\* row it collides with has an uncommitted status update.
invite_insert(p) ==
    /\ rpc[p] = "invite_insert"
    /\ \A i \in pending_for(rop[p].ws, rop[p].email) : ~updating(i)
    /\ IF pending_for(rop[p].ws, rop[p].email) # {}
       THEN RFinish(p, "PendingInvitationExists", wmm)
       ELSE /\ inv' = [inv EXCEPT ![nextInv] = new_invitation(rop[p], now)]
            /\ nextInv' = nextInv + 1
            /\ rpc' = [rpc EXCEPT ![p] = "invite_mail"]
            /\ rop' = [rop EXCEPT ![p].inv = nextInv]
            /\ UNCHANGED <<rrole, rtodo, radmins, rres, memberVars, ilock, now, acceptOk,
                           rlist, mailed, teamVars, auth>>

\* mailer.send_workspace_invitation and the 201 response
invite_mail(p) ==
    /\ rpc[p] = "invite_mail"
    /\ mailed' = mailed \cup {rop[p].inv}
    /\ RReturn(p, "Created")
    /\ UNCHANGED <<memberVars, inv, ilock, nextInv, now, acceptOk>>

\* list_invitations and revoke_invitation: the route's assert_admin
admin_begin(p, o) ==
    /\ rpc[p] = "idle"
    /\ IF check_user_role(o.ws, o.caller) = "admin"
       THEN /\ RGoto(p, IF o.kind = "list" THEN "list_admin" ELSE "revoke_admin")
            /\ rop' = [rop EXCEPT ![p] = o]
            /\ UNCHANGED <<rrole, rtodo, radmins, lock, ilock>>
       ELSE RFinish(p, "PermissionDenied", wmm)

\* list_invitations / revoke_invitation of the repository: assert_admin
repo_admin(p) ==
    /\ rpc[p] \in {"list_admin", "revoke_admin"}
    /\ IF check_user_role(rop[p].ws, rop[p].caller) = "admin"
       THEN /\ RGoto(p, IF rpc[p] = "list_admin" THEN "list_select" ELSE "revoke_delete")
            /\ UNCHANGED <<rop, rrole, rtodo, radmins, lock, ilock>>
       ELSE RFinish(p, "AdminAccessRequired", wmm)

\* the row of S created last; of two rows inserted within the same tick of
\* the clock the one inserted later, which has the higher id
newest(S) ==
    CHOOSE i \in S : \A j \in S :
        \/ inv[j].created_at < inv[i].created_at
        \/ inv[j].created_at = inv[i].created_at /\ j <= i

RECURSIVE by_created_at_desc(_)
\* ORDER BY created_at DESC
by_created_at_desc(S) ==
    IF S = {} THEN <<>> ELSE <<newest(S)>> \o by_created_at_desc(S \ {newest(S)})

\* a row of workspace_invitations as list_invitations returns it (the token
\* of a row is the same number as its id here; updated_at is not kept)
invitation_row(i) ==
    [id |-> i, token |-> i, workspace_id |-> inv[i].ws, invited_by_user_id |-> inv[i].invited_by,
     email |-> inv[i].email, role |-> inv[i].role, status |-> inv[i].status,
     expires_at |-> inv[i].expires_at, created_at |-> inv[i].created_at]

\* the rows `SELECT ... WHERE workspace_id = $1 ORDER BY created_at DESC` returns
listed(w) ==
    LET ids == by_created_at_desc({j \in InvIds : invitation_in(j, w)})
    IN  [k \in DOMAIN ids |-> invitation_row(ids[k])]

list_select(p) ==
    /\ rpc[p] = "list_select"
    /\ RReturnRows(p, "Listed", listed(rop[p].ws))
    /\ UNCHANGED <<memberVars, inv, ilock, nextInv, now, acceptOk, mailed>>

\* GetWorkspaceInvitationResponse { id, workspace_id, role, expires_at }
invitation_view(i) ==
    [id |-> i, workspace_id |-> inv[i].ws, role |-> inv[i].role,
     expires_at |-> inv[i].expires_at]

\* get_invitation: get_invitation_by_token, no authentication
get_invitation(p, o) ==
    /\ rpc[p] = "idle"
    /\ IF invitation_exists(o.inv)
       THEN /\ RReturnRows(p, "Found", <<invitation_view(o.inv)>>)
            /\ UNCHANGED <<memberVars, inv, ilock, nextInv, now, acceptOk, mailed>>
       ELSE RFinish(p, "InvitationNotFound", wmm)

\* DELETE ... WHERE id = $1 AND workspace_id = $2: the statement's snapshot
revoke_delete(p) ==
    /\ rpc[p] = "revoke_delete"
    /\ IF invitation_in(rop[p].inv, rop[p].ws)
       THEN RGoto(p, "revoke_lock") /\ UNCHANGED <<rop, rrole, rtodo, radmins, lock, ilock>>
       ELSE RFinish(p, "InvitationNotFound", wmm)

\* a DELETE that does not wait for the lock an accept holds on the row
revoke_lock_no_wait(p) ==
    /\ rpc[p] = "revoke_lock"
    /\ IF invitation_in(rop[p].inv, rop[p].ws)
       THEN /\ inv' = [inv EXCEPT ![rop[p].inv] = NoInv]
            /\ RReturn(p, "NoContent")
            /\ UNCHANGED <<memberVars, ilock, nextInv, now, acceptOk, mailed>>
       ELSE RFinish(p, "InvitationNotFound", wmm)

\* the DELETE gets the row lock and deletes the row as committed now
revoke_lock(p) ==
    /\ rpc[p] = "revoke_lock"
    /\ ilock[rop[p].inv] = 0
    /\ IF invitation_in(rop[p].inv, rop[p].ws)
       THEN /\ inv' = [inv EXCEPT ![rop[p].inv] = NoInv]
            /\ RReturn(p, "NoContent")
            /\ UNCHANGED <<memberVars, ilock, nextInv, now, acceptOk, mailed>>
       ELSE RFinish(p, "InvitationNotFound", wmm)

\* accept_invitation: SELECT ... WHERE token = $1 AND status = 'pending'
\* FOR UPDATE, the statement's snapshot
accept_begin(p, o) ==
    /\ rpc[p] = "idle"
    /\ IF pending_by_token(o.inv)
       THEN /\ RGoto(p, "accept_lock")
            /\ rop' = [rop EXCEPT ![p] = o]
            /\ UNCHANGED <<rrole, rtodo, radmins, lock, ilock>>
       ELSE RFinish(p, "InvitationNotFoundOrUsed", wmm)

\* a row lock that does not test the status of the row again
accept_lock_no_recheck(p) ==
    /\ rpc[p] = "accept_lock"
    /\ ilock[rop[p].inv] = 0
    /\ IF inv[rop[p].inv].status = "none"
       THEN RFinish(p, "InvitationNotFoundOrUsed", wmm)
       ELSE /\ ilock' = [ilock EXCEPT ![rop[p].inv] = p]
            /\ RGoto(p, IF is_expired(inv[rop[p].inv].expires_at, now)
                         THEN "accept_expire" ELSE "accept_is_member")
            /\ UNCHANGED <<rop, rrole, rtodo, radmins, lock>>

\* ... FOR UPDATE: the row lock is granted and the row is read again as
\* committed now; then the expiry check against Utc::now()
accept_lock(p) ==
    /\ rpc[p] = "accept_lock"
    /\ ilock[rop[p].inv] = 0
    /\ IF ~pending_by_token(rop[p].inv)
       THEN RFinish(p, "InvitationNotFoundOrUsed", wmm)
       ELSE /\ ilock' = [ilock EXCEPT ![rop[p].inv] = p]
            /\ RGoto(p, IF is_expired(inv[rop[p].inv].expires_at, now)
                         THEN "accept_expire" ELSE "accept_is_member")
            /\ UNCHANGED <<rop, rrole, rtodo, radmins, lock>>

\* UPDATE workspace_invitations SET status = 'expired' inside the transaction
accept_expire(p) ==
    /\ rpc[p] = "accept_expire"
    /\ RGoto(p, "accept_expire_commit")
    /\ UNCHANGED <<rop, rrole, rtodo, radmins, lock, ilock>>

\* tx.commit() and the "Invitation has expired" error
accept_expire_commit(p) ==
    /\ rpc[p] = "accept_expire_commit"
    /\ inv' = [inv EXCEPT ![rop[p].inv].status = "expired"]
    /\ ilock' = irelease(p)
    /\ lock' = release(p)
    /\ RReturn(p, "InvitationExpired")
    /\ UNCHANGED <<wmm, nextInv, now, acceptOk, mailed>>

\* the verified e-mail address of a principal
email_of(u) == IF u = 2 THEN "alice@example.com" ELSE "bob@example.com"

\* an accept that admits only the principal the invitation was sent to
accept_is_member_email_checked(p) ==
    /\ rpc[p] = "accept_is_member"
    /\ IF is_member(inv[rop[p].inv].ws, rop[p].caller)
       THEN RGoto(p, "accept_rollback") /\ UNCHANGED <<rop, rrole, rtodo, radmins, lock, ilock>>
       ELSE IF email_of(rop[p].caller) # inv[rop[p].inv].email
       THEN RFinish(p, "InvitationNotFoundOrUsed", wmm)
       ELSE RGoto(p, "accept_add") /\ UNCHANGED <<rop, rrole, rtodo, radmins, lock, ilock>>

\* is_member inside the transaction: for a member the handler goes on to
\* roll back, the invitation row still locked
accept_is_member(p) ==
    /\ rpc[p] = "accept_is_member"
    /\ IF is_member(inv[rop[p].inv].ws, rop[p].caller)
       THEN RGoto(p, "accept_rollback") /\ UNCHANGED <<rop, rrole, rtodo, radmins, lock, ilock>>
       ELSE RGoto(p, "accept_add") /\ UNCHANGED <<rop, rrole, rtodo, radmins, lock, ilock>>

\* tx.rollback().await and the "already a member" error; the rollback
\* releases the lock of the invitation row. A failure of the store to run a
\* statement (here the ROLLBACK) is not modelled, for this statement as for
\* every other
accept_rollback(p) ==
    /\ rpc[p] = "accept_rollback"
    /\ RFinish(p, "AlreadyMember", wmm)

\* add_member inside the transaction: the upsert takes the lock of the row
\* (workspace, user), waiting for a transaction that holds it
accept_add(p) ==
    /\ rpc[p] = "accept_add"
    /\ lock[inv[rop[p].inv].ws, rop[p].caller] = 0
    /\ lock' = [lock EXCEPT ![inv[rop[p].inv].ws, rop[p].caller] = p]
    /\ RGoto(p, "accept_mark")
    /\ UNCHANGED <<rop, rrole, rtodo, radmins, ilock>>

\* UPDATE workspace_invitations SET status = 'accepted' inside the transaction
accept_mark(p) ==
    /\ rpc[p] = "accept_mark"
    /\ RGoto(p, "accept_commit")
    /\ UNCHANGED <<rop, rrole, rtodo, radmins, lock, ilock>>

\* tx.commit() and the response (workspace_id, role)
accept_commit(p) ==
    /\ rpc[p] = "accept_commit"
    /\ LET i == rop[p].inv
       IN  /\ wmm' = add_member(inv[i].ws, rop[p].caller, inv[i].role)
           /\ inv' = [inv EXCEPT ![i].status = "accepted"]
           /\ acceptOk' = [acceptOk EXCEPT ![i] = @ + 1]
    /\ ilock' = irelease(p)
    /\ lock' = release(p)
    /\ RReturn(p, "Ok")
    /\ UNCHANGED <<nextInv, now, mailed>>

\* time passes, the lifetime of an invitation at a time
Tick ==
    /\ now + InvitationTtl <= MaxTime
    /\ now' = now + InvitationTtl
    /\ UNCHANGED <<teamVars, auth, memberVars, handlerVars, inv, ilock, nextInv, acceptOk, rlist, mailed>>

\* transactions q that p is waiting for
blockers(p) ==
    IF rpc[p] \in {"lock_target", "lock_admins"}
    THEN {lock[rop[p].ws, u] : u \in rtodo[p]} \ {0, p}
    ELSE IF rpc[p] \in {"accept_lock", "revoke_lock"}
    THEN {ilock[rop[p].inv]} \ {0, p}
    ELSE IF rpc[p] = "accept_add"
    THEN {lock[inv[rop[p].inv].ws, rop[p].caller]} \ {0, p}
    ELSE IF rpc[p] = "invite_insert"
    THEN {ilock[i] : i \in {j \in pending_for(rop[p].ws, rop[p].email) : updating(j)}}
    ELSE {}

RECURSIVE waits_on(_, _)
\* transactions p waits for, directly or through others, in at most n steps
waits_on(p, n) ==
    IF n = 0 THEN {}
    ELSE blockers(p) \cup UNION {waits_on(q, n - 1) : q \in blockers(p)}

\* Postgres finds p in a cycle of lock waits and aborts its statement:
\* the handler maps the error to 500 and drops the transaction
route_deadlock(p) ==
    /\ p \in waits_on(p, NumProcs)
    /\ RFinish(p, "DatabaseError", wmm)

RemoteStep(p) ==
    \/ route_permission(p)
    \/ route_select_target(p)
    \/ route_lock_target(p)
    \/ route_select_admins(p)
    \/ route_lock_admin(p)
    \/ route_check_admins(p)
    \/ route_write(p)
    \/ route_commit(p)
    \/ route_deadlock(p)

RemoteCall(p) == \E o \in RemoveReqs \cup UpdateReqs : route_begin(p, o)

\* the explicit permission overlay of a member: the permissions array of
\* the row, which has_permission reads and no statement of the routes or of
\* the repositories writes; the grants are made on the table directly.
\* User 3 was granted member.remove and member.role.change in workspace 1
\* and member.invite in workspace 2
explicit_permissions(w, u) ==
    IF u = 3 /\ w = 1 THEN {"member.remove", "member.role.change"}
    ELSE IF u = 3 /\ w = 2 THEN {"member.invite"}
    ELSE {}

\* rows of workspace 1 when the member requests start: user 1 created it
\* and is an Admin (create_workspace adds the creator), user 2 was added as
\* a second Admin and every other user as a Member (add_member), and the
\* overlay was granted afterwards
SeedRow(u) ==
    [role |-> IF u <= 2 THEN "admin" ELSE "member",
     permissions |-> explicit_permissions(1, u)]

\* rows of a workspace when the invitation requests start: user 1 created
\* it and is its Admin, nobody else is a member
InviteSeedRow(u) == IF u = 1 THEN [role |-> "admin", permissions |-> {}] ELSE NoMember

RemoteInitWith(seed) ==
    /\ wmm = seed
    /\ lock = [k \in Keys |-> 0]
    /\ rpc = [p \in Procs |-> "idle"]
    /\ rop = [p \in Procs |-> NoReq]
    /\ rrole = [p \in Procs |-> "none"]
    /\ rtodo = [p \in Procs |-> {}]
    /\ radmins = [p \in Procs |-> {}]
    /\ rres = "none"
    /\ inv = [i \in InvIds |-> NoInv]
    /\ ilock = [i \in InvIds |-> 0]
    /\ nextInv = 1
    /\ now = 0
    /\ acceptOk = [i \in InvIds |-> 0]
    /\ rlist = <<>>
    /\ mailed = {}

\* rows of the second workspace when the member requests start: user 2
\* created it and is its only member
SoleAdminRow(u) == IF u = 2 THEN [role |-> "admin", permissions |-> {}] ELSE NoMember

RemoteInit ==
    RemoteInitWith([k \in Keys |-> IF k[1] = 1 THEN SeedRow(k[2]) ELSE SoleAdminRow(k[2])])

RemoteNext == \E p \in Procs : RemoteCall(p) \/ RemoteStep(p)

InviteCall(p) ==
    \/ \E o \in InviteReqs : invite_begin(p, o)
    \/ \E o \in ListReqs \cup RevokeReqs : admin_begin(p, o)
    \/ \E o \in GetReqs : get_invitation(p, o)
    \/ \E o \in AcceptReqs : accept_begin(p, o)

InviteStep(p) ==
    \/ invite_permission(p)
    \/ invite_admin(p)
    \/ invite_insert(p)
    \/ invite_mail(p)
    \/ repo_admin(p)
    \/ list_select(p)
    \/ revoke_delete(p)
    \/ revoke_lock(p)
    \/ accept_lock(p)
    \/ accept_expire(p)
    \/ accept_expire_commit(p)
    \/ accept_is_member(p)
    \/ accept_rollback(p)
    \/ accept_add(p)
    \/ accept_mark(p)
    \/ accept_commit(p)

\* rows of the second workspace when the invitation requests start: user 2
\* created it and is its Admin, user 3 was added as a Member (add_member)
\* and the overlay was granted afterwards
GrantedSeedRow(u) ==
    IF u \in {2, 3}
    THEN [role |-> IF u = 2 THEN "admin" ELSE "member",
          permissions |-> explicit_permissions(2, u)]
    ELSE NoMember

InviteInit ==
    RemoteInitWith([k \in Keys |-> IF k[1] = 1 THEN InviteSeedRow(k[2])
                                   ELSE GrantedSeedRow(k[2])])

InviteNext == Tick \/ \E p \in Procs : InviteCall(p) \/ InviteStep(p)

Init == TeamInit /\ RemoteInit /\ AuthInit

InitInvite == TeamInit /\ InviteInit /\ AuthInit

AcrossCall(p) ==
    \/ \E o \in InviteReqsAcross : invite_begin(p, o)
    \/ \E o \in ListReqsAcross \cup RevokeReqsAcross : admin_begin(p, o)
    \/ \E o \in AcceptReqs : accept_begin(p, o)

AcrossStep(p) ==
    \/ invite_permission(p)
    \/ invite_admin(p)
    \/ invite_insert(p)
    \/ invite_mail(p)
    \/ repo_admin(p)
    \/ list_select(p)
    \/ revoke_delete(p)
    \/ revoke_lock(p)
    \/ accept_lock(p)
    \/ accept_is_member(p)
    \/ accept_rollback(p)
    \/ accept_add(p)
    \/ accept_mark(p)
    \/ accept_commit(p)

AcrossNext == \E p \in Procs : AcrossCall(p) \/ AcrossStep(p)

\* concurrent calls of WorkspaceTeamService
SpecTeam == Init /\ [][TeamNext]_vars

\* concurrent calls of the role store, while the clock advances
RolesNext ==
    \/ \E p \in Procs : RoleCall(p) \/ RoleStep(p)
    \/ now < MaxRoleTime /\ Tick

SpecRoles == Init /\ [][RolesNext]_vars

\* the service's calls one at a time, while custom roles are created and deleted
RoleRefsNext ==
    \E p \in Procs :
       \/ \E data \in CreateRole : role_create(p, data)
       \/ \E id \in RoleIdInputs : role_delete(p, id)
       \/ TeamCallAlone(p)
       \/ svc_create_team_member(p)
       \/ TeamStep(p)

SpecRoleRefs == Init /\ [][RoleRefsNext]_vars

\* calls of WorkspaceTeamService, one at a time
SpecTeamSerial == Init /\ [][TeamSerialNext]_vars

SpecTeamCreate == Init /\ [][TeamCreateNext]_vars

\* no call of the service, and no request to the routes, has been made
TeamQuiet == tlast = 0 /\ tres = "none" /\ \A p \in Procs : tpc[p] = "idle"
RemoteQuiet == rres = "none" /\ \A p \in Procs : rpc[p] = "idle"

\* a deployment runs one of the two tiers: the service calls one at a time,
\* or the concurrent member requests of the remote routes
MembershipNext ==
    \/ RemoteQuiet /\ TeamSerialNext
    \/ TeamQuiet /\ RemoteNext

SpecMembership == Init /\ [][MembershipNext]_vars

\* the two tiers, with the clock advancing between the service's calls
FrameNext ==
    \/ MembershipNext
    \/ RemoteQuiet /\ tlast # 0 /\ now < MaxRoleTime /\ Tick

SpecFrame == Init /\ [][FrameNext]_vars

\* permission checks of the service between its member calls, or the
\* member requests of the remote routes
PermissionNext ==
    \/ RemoteQuiet /\ TeamSerialNext
    \/ RemoteQuiet /\ \E p \in Procs : RequireCall(p) \/ svc_require_permission(p)
    \/ TeamQuiet /\ RemoteNext

SpecPermission == Init /\ [][PermissionNext]_vars

\* two invitations of workspace 1 sent by its creator before the requests
\* start: an Admin invitation to one address and a Member invitation to
\* another, both pending
ReinviteRow(i) ==
    [ws |-> 1, invited_by |-> 1, email |-> email_of(i + 1),
     role |-> IF i = 1 THEN "admin" ELSE "member",
     status |-> "pending", expires_at |-> InvitationTtl, created_at |-> 0]

ReinviteInit ==
    /\ wmm = [k \in Keys |-> IF k[1] = 1 THEN InviteSeedRow(k[2]) ELSE GrantedSeedRow(k[2])]
    /\ lock = [k \in Keys |-> 0]
    /\ rpc = [p \in Procs |-> "idle"]
    /\ rop = [p \in Procs |-> NoReq]
    /\ rrole = [p \in Procs |-> "none"]
    /\ rtodo = [p \in Procs |-> {}]
    /\ radmins = [p \in Procs |-> {}]
    /\ rres = "none"
    /\ inv = [i \in InvIds |-> ReinviteRow(i)]
    /\ ilock = [i \in InvIds |-> 0]
    /\ nextInv = MaxInv + 1
    /\ now = 0
    /\ acceptOk = [i \in InvIds |-> 0]
    /\ rlist = <<>>
    /\ mailed = InvIds

\* the steps of an accept whose invitation has not expired
AcceptStep(p) ==
    \/ accept_lock(p)
    \/ accept_is_member(p)
    \/ accept_rollback(p)
    \/ accept_add(p)
    \/ accept_mark(p)
    \/ accept_commit(p)

\* accept_invitation interleaved with remove_member and update_member_role,
\* within the lifetime of the two invitations
ReinviteNext ==
    \/ \E p \in Procs : (\E o \in AcceptReqs : accept_begin(p, o)) \/ AcceptStep(p)
    \/ RemoteNext

InitReinvite == TeamInit /\ ReinviteInit /\ AuthInit

SpecReinvite == InitReinvite /\ [][ReinviteNext]_vars

\* concurrent remove_member / update_member_role requests of the remote routes
SpecRemote == Init /\ [][RemoteNext]_vars

\* concurrent invitation requests for two workspaces, before any invitation expires
SpecAcross == InitInvite /\ [][AcrossNext]_vars

\* permission checks of the authorization middleware
SpecAuth == Init /\ [][AuthNext]_vars

\* concurrent invitation requests of the remote routes while time passes
SpecInvite == InitInvite /\ [][InviteNext]_vars

(* ====================================================================== *)
(* Properties of the Owner-tier service                                   *)
(* ====================================================================== *)

\* the call that began last has returned and no other call has begun
SerialDone == tlast # 0 /\ \A q \in Procs : tpc[q] = "idle"

\* rows of the target pair, and Owner rows of the target team, when the call began
PreRows == {m \in tsnap.members : m.team = tsnap.op.team /\ m.user = tsnap.op.user}
PreOwners == {m \in tsnap.members : m.team = tsnap.op.team /\ m.role = OWNER}

\* C2: every team keeps at least one Owner membership under concurrent
\* remove_member / update_member_role calls whose store calls interleave.
C2_OwnerCountNeverZero == \A t \in teams : count_by_role(t, OWNER) >= 1

\* C4: remove_member run alone on an existing member returns LastOwner and
\* leaves workspace_members unchanged when the target is an Owner and the
\* team has at most one Owner; otherwise it deletes exactly the target's row.
C4_RemoveMemberAlone ==
    (SerialDone /\ tsnap.op.kind = "remove" /\ PreRows # {}) =>
        IF (\E m \in PreRows : m.role = OWNER) /\ Cardinality(PreOwners) <= 1
        THEN tres = "LastOwner" /\ members = tsnap.members
        ELSE tres = "Ok" /\ members = tsnap.members \ PreRows

\* remove_member(U1) has just failed with LastOwner although U2 is a Member of the team
C4_Witness ==
    /\ SerialDone /\ tsnap.op.kind = "remove" /\ tsnap.op.user = 1
    /\ tres = "LastOwner"
    /\ \E m \in members : m.team = tsnap.op.team /\ m.user = 2 /\ m.role = MEMBER

\* C5: update_member_role run alone on an existing member with an existing
\* role returns LastOwnerRoleChange and leaves the role when the target is an
\* Owner, the new role is not Owner and the team has at most one Owner; in
\* every other case the target's role becomes the new role.
C5_UpdateMemberRoleAlone ==
    (SerialDone /\ tsnap.op.kind = "update" /\ PreRows # {} /\ role_exists(tsnap.op.role)) =>
        IF /\ \E m \in PreRows : m.role = OWNER
           /\ tsnap.op.role # OWNER
           /\ Cardinality(PreOwners) <= 1
        THEN tres = "LastOwnerRoleChange" /\ members = tsnap.members
        ELSE /\ tres = "Ok"
             /\ members = (tsnap.members \ PreRows)
                            \cup {[m EXCEPT !.role = tsnap.op.role] : m \in PreRows}

\* the only Owner was asked to become a Member and the call was refused
C5_Witness ==
    /\ SerialDone /\ tsnap.op.kind = "update" /\ tsnap.op.role = MEMBER
    /\ tres = "LastOwnerRoleChange"
    /\ \E m \in members : m.user = tsnap.op.user /\ m.team = tsnap.op.team /\ m.role = OWNER

\* C6: at most one membership row per (team, user) in every reachable
\* state, the existence check of add_member being made in the same
\* transaction as its insert: no row of the pair exists when the insert is issued.
C6_UniqueUnderOneTransaction ==
    /\ \A m1, m2 \in members : (m1.team = m2.team /\ m1.user = m2.user) => m1 = m2
    /\ \A p \in Procs :
          tpc[p] = "am_create" => find_by_team_and_user(top[p].team, top[p].user) = NoRow

\* C7: add_member for a pair that already has a row always fails with
\* AlreadyMember, whatever role is requested, and leaves the row as it was.
C7_AlwaysAlreadyMember ==
    (SerialDone /\ tsnap.op.kind = "add" /\ PreRows # {}) =>
        tres = "AlreadyMember" /\ members = tsnap.members

\* C7 as the code has it: add_member for a pair that already has a row
\* leaves workspace_members as it was; it fails with AlreadyMember when the
\* requested role exists, whatever that role is, and with RoleNotFound when
\* it does not, the role being looked up before the existing row.
C7_AddExistingMember ==
    (SerialDone /\ tsnap.op.kind = "add" /\ PreRows # {}) =>
        /\ members = tsnap.members
        /\ tres = IF role_exists(tsnap.op.role) THEN "AlreadyMember" ELSE "RoleNotFound"

\* an add_member carrying another role and another inviter than the
\* existing row has returned AlreadyMember and the row is as it was
C7_Witness ==
    /\ SerialDone /\ tsnap.op.kind = "add"
    /\ \E m \in PreRows : m.role # tsnap.op.role /\ m.invited_by # tsnap.op.invited_by
    /\ PreRows \subseteq members
    /\ role_exists(tsnap.op.role)
    /\ tres = "AlreadyMember"

(* ====================================================================== *)
(* Properties of the Admin-tier member routes                             *)
(* ====================================================================== *)

\* requests that would take the Admin role from their target
DemoteReqs == RemoveReqs \cup {o \in UpdateReqs : o.role = "member"}

\* this step is the return of request o of handler p
MemberReturns(p, o) ==
    /\ rpc'[p] = "idle"
    /\ \/ rpc[p] # "idle" /\ rop[p] = o
       \/ rpc[p] = "idle" /\ rpc' = rpc /\ route_begin(p, o)

\* C1: under every interleaving of concurrent remove_member and
\* update_member_role requests, a workspace that has an Admin row keeps at
\* least one Admin row.
C1_AdminCountNeverZero == \A w \in Workspaces : admin_rows(w) # {}

\* user 2 lost the Admin role, a request on the remaining Admin was answered
\* with the conflict error, and another request is still running
C1_Witness ==
    /\ admin_rows(1) = {1}
    /\ rres \in {"CannotRemoveLastAdmin", "CannotDemoteLastAdmin"}
    /\ \E p \in Procs : rpc[p] # "idle"

\* C3 as stated: every remove_member / update_member_role(Member) request
\* that returns while its target is the only Admin of the workspace returns
\* the conflict error, and the target keeps the Admin role.
C3_EachRejectedWithConflict ==
    [][\A p \in Procs : \A o \in DemoteReqs :
          (admin_rows(o.ws) = {o.target} /\ MemberReturns(p, o)) =>
              /\ rres' = conflict_error(o)
              /\ wmm'[o.ws, o.target].role = "admin"]_vars

\* C3, amended: no remove_member / update_member_role(Member) request that
\* returns while its target is the only Admin of the workspace succeeds, and
\* the table is left as it was. A caller who is the target gets the
\* cannot-act-on-yourself error; any other caller gets the conflict error,
\* PermissionDenied when it lacks the permission, or the database error of
\* an aborted transaction.
C3_NoneSucceeds ==
    [][\A p \in Procs : \A o \in DemoteReqs :
          (admin_rows(o.ws) = {o.target} /\ MemberReturns(p, o)) =>
              /\ wmm' = wmm
              /\ IF o.caller = o.target
                 THEN rres' = self_error(o)
                 ELSE rres' \in {conflict_error(o), "PermissionDenied", "DatabaseError"}]_vars

\* user 2 is the only Admin; a demotion of user 2 was answered with the
\* conflict error while another request on user 2 waits for the row lock
C3_Witness ==
    /\ admin_rows(1) = {2}
    /\ rres = "CannotDemoteLastAdmin"
    /\ \E p \in Procs : rpc[p] = "lock_target" /\ rop[p].target = 2 /\ rop[p].kind = "remove"

(* ====================================================================== *)
(* Properties of the enumerated roles                                     *)
(* ====================================================================== *)

\* C15: permissions(Admin) contains permissions(Member), which contains
\* permissions(Viewer); permissions(Admin) is the whole Permission enum,
\* AdminAccess included, so every has_permission of an Admin answers true.
C15_RolePermissionsMonotone ==
    /\ permissions("Viewer") \subseteq permissions("Member")
    /\ permissions("Member") \subseteq permissions("Admin")
    /\ permissions("Admin") = Permission
    /\ <<"", "Admin", "Access">> \in permissions("Admin")
    /\ (auth.call = "has_permission" /\ auth.role = "Admin") => auth.result

\* an Admin context was asked for AdminAccess and answered true
C15_Witness ==
    /\ auth.call = "has_permission" /\ auth.role = "Admin"
    /\ auth.perms = << <<"", "Admin", "Access">> >>
    /\ auth.result

\* C17: Member holds every Read and every Own* permission, no Update or
\* Delete that is not Own*, and not AdminAccess; Viewer holds Read
\* permissions only; and has_permission answers accordingly.
C17_MemberAndViewer ==
    /\ \A q \in Permission :
          /\ (q[3] = "Read" \/ q[1] = "Own") => q \in permissions("Member")
          /\ (q[1] = "" /\ q[3] \in {"Update", "Delete"}) => q \notin permissions("Member")
          /\ q \in permissions("Viewer") => q[3] = "Read"
    /\ <<"", "Admin", "Access">> \notin permissions("Member")
    /\ {<<"", "Task", "Read">>, <<"", "Task", "Create">>, <<"Own", "Task", "Update">>,
        <<"Own", "Task", "Delete">>} \subseteq permissions("Member")
    /\ {<<"", "Task", "Create">>, <<"", "Task", "Update">>, <<"", "Task", "Delete">>,
        <<"", "Admin", "Access">>} \cap permissions("Viewer") = {}
    /\ (auth.call = "has_permission" /\ auth.role = "Member") =>
          (auth.result <=>
             /\ auth.perms[1] # <<"", "Admin", "Access">>
             /\ auth.perms[1] # <<"", "Project", "Create">>
             /\ ~(auth.perms[1][1] = "" /\ auth.perms[1][3] \in {"Update", "Delete"}))
    /\ (auth.call = "has_permission" /\ auth.role = "Viewer") =>
          (auth.result <=> auth.perms[1][3] = "Read")

\* a Member context was asked for TaskUpdate and answered false
C17_Witness ==
    /\ auth.call = "has_permission" /\ auth.role = "Member"
    /\ auth.perms = << <<"", "Task", "Update">> >>
    /\ ~auth.result

\* C18: has_any_permission(ps) is true exactly when some p of ps passes
\* has_permission, has_all_permissions(ps) exactly when every p of ps does;
\* the empty list gives false and true.
C18_AnyAndAll ==
    /\ auth.call = "has_any_permission" =>
          (auth.result <=>
             \E k \in 1..Len(auth.perms) : ctx_has_permission(auth.role, auth.perms[k]))
    /\ auth.call = "has_all_permissions" =>
          (auth.result <=>
             \A k \in 1..Len(auth.perms) : ctx_has_permission(auth.role, auth.perms[k]))
    /\ \A role \in AuthRoles :
          ~has_any_permission(role, <<>>) /\ has_all_permissions(role, <<>>)

\* a Viewer context holds the second of two permissions only: any is true
C18_Witness ==
    /\ auth.call = "has_any_permission" /\ auth.role = "Viewer"
    /\ auth.perms = << <<"", "Task", "Create">>, <<"", "Task", "Read">> >>
    /\ auth.result

(* ====================================================================== *)
(* Properties of the invitations                                          *)
(* ====================================================================== *)

\* this step is the return of an accept_invitation of token i by handler p
AcceptReturns(p, i) ==
    /\ rpc'[p] = "idle"
    /\ \/ rpc[p] # "idle" /\ rop[p].kind = "accept" /\ rop[p].inv = i
       \/ /\ rpc[p] = "idle" /\ rpc' = rpc
          /\ \E o \in AcceptReqs : o.inv = i /\ accept_begin(p, o)

\* C8: an invitation token is accepted at most once, also under concurrent
\* accepts by different principals: the accept that commits makes its caller
\* a member with the invitation's role and sets the invitation to accepted;
\* every accept that returns once the token has been accepted fails with
\* "not found or already used" and leaves memberships and invitations alone.
C8_AcceptedOnce ==
    [][\A i \in InvIds :
          /\ acceptOk'[i] <= 1
          /\ acceptOk'[i] > acceptOk[i] =>
                \E p \in Procs :
                   /\ AcceptReturns(p, i)
                   /\ rres' = "Ok"
                   /\ inv'[i].status = "accepted"
                   /\ wmm'[inv[i].ws, rop[p].caller].role = inv[i].role
          /\ acceptOk[i] >= 1 =>
                \A p \in Procs :
                   AcceptReturns(p, i) =>
                      /\ rres' = "InvitationNotFoundOrUsed"
                      /\ wmm' = wmm
                      /\ inv' = inv]_vars

\* user 2 became a member through token 1 while user 3, whose SELECT found
\* the same token pending, waits for the row lock
C8_Witness ==
    /\ acceptOk[1] = 1
    /\ inv[1].status = "accepted"
    /\ is_member(1, 2)
    /\ \E p \in Procs :
          rpc[p] = "accept_lock" /\ rop[p].inv = 1 /\ rop[p].caller = 3 /\ ilock[1] = 0

TerminalStatuses == {"accepted", "revoked", "expired"}

\* C9 as stated: a stored invitation that has left pending stays as it is
\* under every operation.
C9_TerminalForEveryOperation ==
    [][\A i \in InvIds :
          inv[i].status \in TerminalStatuses => inv'[i].status = inv[i].status]_vars

\* C9, amended: the status of a stored invitation that has left pending is
\* never written again; revoke_invitation may delete the row, whatever its
\* status, and a deleted row never comes back. A membership is written only
\* by the commit of an accept whose invitation is pending up to that commit.
C9_TerminalWhileStored ==
    [][/\ \A i \in InvIds :
            /\ inv[i].status \in TerminalStatuses => inv'[i].status \in {inv[i].status, "none"}
            /\ (inv[i].status = "none" /\ i < nextInv) => inv'[i].status = "none"
       /\ wmm' # wmm =>
            \E p \in Procs :
               /\ rpc[p] = "accept_commit" /\ rpc'[p] = "idle"
               /\ inv[rop[p].inv].status = "pending"
               /\ inv'[rop[p].inv].status = "accepted"]_vars

\* invitation 1 was accepted and then deleted by revoke_invitation
C9_Witness ==
    /\ acceptOk[1] = 1
    /\ inv[1].status = "none"
    /\ rres = "NoContent"

\* C10: an accept that gets the lock of a pending invitation whose
\* expires_at is earlier than now goes on to mark it expired, touches no
\* membership, commits status expired and returns the expired error; from
\* then on list_invitations reports the row as expired and an accept of the
\* token fails as not pending.
C10_ExpiredOnAccept ==
    [][\A p \in Procs :
          /\ ( /\ rpc[p] = "accept_lock" /\ rpc'[p] # "accept_lock"
               /\ inv[rop[p].inv].status = "pending"
               /\ inv[rop[p].inv].expires_at < now ) =>
                   rpc'[p] = "accept_expire" /\ ilock'[rop[p].inv] = p
          /\ rpc[p] = "accept_expire" =>
                   rpc'[p] \in {"accept_expire", "accept_expire_commit"}
          /\ rpc[p] \in {"accept_expire", "accept_expire_commit"} =>
                   (wmm' = wmm /\ inv[rop[p].inv].status = "pending")
          /\ (rpc[p] = "accept_expire_commit" /\ rpc'[p] # rpc[p]) =>
                   /\ rpc'[p] = "idle"
                   /\ rres' = "InvitationExpired"
                   /\ inv'[rop[p].inv].status = "expired"
          /\ (rpc[p] = "list_select" /\ rpc'[p] = "idle") =>
                   \A i \in InvIds :
                      (inv[i].status = "expired" /\ inv[i].ws = rop[p].ws) =>
                          \E k \in DOMAIN rlist' :
                              rlist'[k].id = i /\ rlist'[k].status = "expired"
          /\ \A i \in InvIds :
                (inv[i].status = "expired" /\ AcceptReturns(p, i)) =>
                   /\ rres' = "InvitationNotFoundOrUsed"
                   /\ wmm' = wmm
                   /\ inv' = inv]_vars

\* list_invitations has just reported invitation 1 as expired, and nobody
\* but the creator of the workspace is a member
C10_Witness ==
    /\ rres = "Listed"
    /\ \E k \in DOMAIN rlist : rlist[k].id = 1 /\ rlist[k].status = "expired"
    /\ \A u \in Users : is_member(1, u) => u = 1

\* C11: an accept whose caller is found to be a member of the invitation's
\* workspace rolls back and returns the "already a member" error, and
\* neither step changes anything: the invitation stays pending and is
\* unlocked by the rollback, so that another principal can accept it, and
\* the accept leaves the caller's row as it is. No other path returns that
\* error.
C11_AlreadyMember ==
    [][\A p \in Procs :
          /\ ( /\ rpc[p] = "accept_is_member" /\ rpc'[p] # "accept_is_member"
               /\ wmm[inv[rop[p].inv].ws, rop[p].caller].role # "none" ) =>
                   /\ rpc'[p] = "accept_rollback"
                   /\ wmm' = wmm
                   /\ inv' = inv
          /\ (rpc[p] = "accept_rollback" /\ rpc'[p] # "accept_rollback") =>
                   /\ rpc'[p] = "idle"
                   /\ rres' = "AlreadyMember"
                   /\ wmm' = wmm
                   /\ inv' = inv
                   /\ inv[rop[p].inv].status = "pending"
                   /\ ilock'[rop[p].inv] = 0
          /\ rpc'[p] = "accept_rollback" =>
                   \/ rpc[p] = "accept_rollback"
                   \/ /\ rpc[p] = "accept_is_member"
                      /\ wmm[inv[rop[p].inv].ws, rop[p].caller].role # "none"
          /\ (rpc[p] # "idle" /\ rpc'[p] = "idle" /\ rres' = "AlreadyMember") =>
                   rpc[p] = "accept_rollback"]_vars

\* the Admin's accept of token 1 was refused as already a member; the
\* token is still pending and user 2 is now accepting it
C11_Witness ==
    /\ rres = "AlreadyMember"
    /\ inv[1].status = "pending"
    /\ wmm[1, 1].role = "admin"
    /\ \E p \in Procs :
          rpc[p] = "accept_is_member" /\ rop[p].inv = 1 /\ rop[p].caller = 2

\* pending invitations of a pair (workspace, email) in a table
PendingRows(table, w, e) ==
    {i \in InvIds : table[i].status = "pending" /\ table[i].ws = w /\ table[i].email = e}

\* C12: a pair (workspace, email) never has two pending invitations, also
\* under concurrent creates; the INSERT of a create for a pair that has a
\* pending invitation fails with "a pending invitation already exists" and
\* inserts nothing; for a pair without one (none ever, or the earlier one
\* accepted, expired or revoked) it inserts a pending row.
C12_OnePendingPerEmail ==
    [][/\ \A w \in Workspaces : \A e \in Emails : Cardinality(PendingRows(inv', w, e)) <= 1
       /\ \A p \in Procs :
             (rpc[p] = "invite_insert" /\ rpc'[p] # "invite_insert") =>
                 IF PendingRows(inv, rop[p].ws, rop[p].email) # {}
                 THEN /\ rpc'[p] = "idle"
                      /\ rres' = "PendingInvitationExists"
                      /\ inv' = inv
                 ELSE /\ rpc'[p] = "invite_mail"
                      /\ PendingRows(inv', rop[p].ws, rop[p].email) = {nextInv}
                      /\ inv[nextInv].status = "none"]_vars

\* invitation 1 has expired and the same e-mail holds the pending invitation 2
C12_Witness ==
    /\ inv[1].status = "expired"
    /\ inv[2].status = "pending"
    /\ inv[2].ws = inv[1].ws /\ inv[2].email = inv[1].email

\* the responses that carry IdentityError::PermissionDenied (403): from the
\* route's assert_permission / assert_admin and from the repository's
\* assert_admin
PermissionDeniedResponses == {"PermissionDenied", "AdminAccessRequired"}

\* C13: create_invitation reaches its INSERT only from an assert_admin that
\* found the caller Admin of the workspace; a caller who is not (a
\* non-member, or a member, whatever the permissions array holds) gets
\* PermissionDenied and no invitation is inserted; a row appears only by
\* the INSERT of such a call, for its workspace and caller.
C13_AdminCreatesInvitation ==
    [][/\ \A p \in Procs :
             /\ (rpc[p] = "invite_admin" /\ rpc'[p] # "invite_admin") =>
                   IF wmm[rop[p].ws, rop[p].caller].role = "admin"
                   THEN rpc'[p] = "invite_insert" /\ inv' = inv
                   ELSE /\ rpc'[p] = "idle"
                        /\ rres' \in PermissionDeniedResponses
                        /\ inv' = inv
             /\ (rpc[p] = "invite_permission" /\ rpc'[p] # "invite_permission") =>
                   /\ inv' = inv
                   /\ \/ rpc'[p] = "invite_admin"
                      \/ rpc'[p] = "idle" /\ rres' \in PermissionDeniedResponses
             /\ (rpc'[p] = "invite_insert" /\ rpc[p] # "invite_insert") =>
                   /\ rpc[p] = "invite_admin"
                   /\ wmm[rop[p].ws, rop[p].caller].role = "admin"
       /\ \A i \in InvIds :
             (inv[i].status = "none" /\ inv'[i].status # "none") =>
                   \E p \in Procs :
                       /\ rpc[p] = "invite_insert"
                       /\ inv'[i].ws = rop[p].ws
                       /\ inv'[i].invited_by = rop[p].caller]_vars

\* user 3, a Member of workspace 2 whose permissions hold member.invite,
\* was refused by the repository's assert_admin; workspace 2 has no
\* invitation
C13_Witness ==
    /\ rres = "AdminAccessRequired"
    /\ wmm[2, 3].role = "member"
    /\ "member.invite" \in wmm[2, 3].permissions
    /\ \A i \in InvIds : inv[i].status = "none" \/ inv[i].ws # 2

\* C14: list_invitations and revoke_invitation go past their assert_admin
\* only for an Admin of the workspace, and otherwise return
\* PermissionDenied with nothing changed; the list holds the rows of that
\* workspace only; a revoke whose id has no row under the workspace
\* returns "Invitation not found" and deletes nothing; a row is deleted
\* only by a revoke addressed to the row's own workspace.
C14_AdminListsAndRevokes ==
    [][/\ \A p \in Procs :
             /\ (rpc[p] = "idle" /\ rpc'[p] \in {"list_admin", "revoke_admin"}) =>
                   wmm[rop'[p].ws, rop'[p].caller].role = "admin"
             /\ (rpc[p] \in {"list_admin", "revoke_admin"} /\ rpc'[p] # rpc[p]) =>
                   /\ inv' = inv /\ wmm' = wmm
                   /\ IF wmm[rop[p].ws, rop[p].caller].role = "admin"
                      THEN rpc'[p] = (IF rpc[p] = "list_admin" THEN "list_select"
                                                              ELSE "revoke_delete")
                      ELSE rpc'[p] = "idle" /\ rres' \in PermissionDeniedResponses
             /\ (rpc'[p] \in {"list_select", "revoke_delete"} /\ rpc[p] # rpc'[p]) =>
                   rpc[p] \in {"list_admin", "revoke_admin"}
             /\ (rpc[p] = "list_select" /\ rpc'[p] # "list_select") =>
                   /\ rres' = "Listed" /\ inv' = inv
                   /\ {rlist'[k].id : k \in DOMAIN rlist'}
                        = {j \in InvIds : inv[j].status # "none" /\ inv[j].ws = rop[p].ws}
                   /\ \A k \in DOMAIN rlist' :
                         /\ rlist'[k].status = inv[rlist'[k].id].status
                         /\ rlist'[k].workspace_id = rop[p].ws
                         /\ \A l \in DOMAIN rlist' :
                               k < l => ~(rlist'[k].created_at < rlist'[l].created_at)
             /\ ( /\ rpc[p] \in {"revoke_delete", "revoke_lock"} /\ rpc'[p] # rpc[p]
                  /\ (inv[rop[p].inv].status = "none" \/ inv[rop[p].inv].ws # rop[p].ws) ) =>
                   /\ rpc'[p] = "idle"
                   /\ rres' = "InvitationNotFound"
                   /\ inv' = inv
       /\ \A o \in ListReqsAcross \cup RevokeReqsAcross : \A p \in Procs :
             ( /\ rpc[p] = "idle" /\ rpc' = rpc
               /\ wmm[o.ws, o.caller].role # "admin"
               /\ admin_begin(p, o) ) =>
                   /\ rres' \in PermissionDeniedResponses
                   /\ inv' = inv /\ wmm' = wmm
       /\ \A i \in InvIds :
             (inv[i].status # "none" /\ inv'[i].status = "none") =>
                   \E p \in Procs :
                       /\ rpc[p] = "revoke_lock" /\ rop[p].inv = i
                       /\ rop[p].ws = inv[i].ws
                       /\ rpc'[p] = "idle" /\ rres' = "NoContent"]_vars

\* the Admin of workspace 2 is about to run the DELETE of a revoke whose id
\* is the pending invitation 1 of workspace 1
C14_Witness ==
    /\ inv[1].status = "pending" /\ inv[1].ws = 1
    /\ \E p \in Procs :
          /\ rpc[p] = "revoke_delete"
          /\ rop[p].ws = 2 /\ rop[p].inv = 1
          /\ wmm[2, rop[p].caller].role = "admin"

(* ====================================================================== *)
(* Permission and self checks of the remote routes                        *)
(* ====================================================================== *)

\* what has_permission answers on the table as it is now
HasPermissionAnswers ==
    \A w \in Workspaces : \A u \in Users : \A perm \in Permissions :
        has_permission(w, u, perm) =
            CASE wmm[w, u].role = "admin" -> TRUE
              [] wmm[w, u].role = "none" -> FALSE
              [] OTHER -> perm \in wmm[w, u].permissions

\* C16: has_permission is true for every permission of an Admin, whatever
\* the permissions array holds; for another member it is true exactly for
\* the keys in the member's array; for a user without a row it is false.
\* The handlers go past assert_permission accordingly: an Admin after the
\* first query, anyone else by the array, and otherwise PermissionDenied.
C16_HasPermission ==
    [][/\ HasPermissionAnswers /\ HasPermissionAnswers'
       /\ \A p \in Procs :
             /\ (rpc[p] = "idle" /\ rpc'[p] = "select_target") =>
                   wmm[rop'[p].ws, rop'[p].caller].role = "admin"
             /\ (rpc[p] = "idle" /\ rpc'[p] = "permission") =>
                   wmm[rop'[p].ws, rop'[p].caller].role # "admin"
             /\ (rpc[p] = "permission" /\ rpc'[p] # "permission") =>
                   IF /\ wmm[rop[p].ws, rop[p].caller].role # "none"
                      /\ required_permission(rop[p]) \in wmm[rop[p].ws, rop[p].caller].permissions
                   THEN rpc'[p] = "select_target"
                   ELSE rpc'[p] = "idle" /\ rres' = "PermissionDenied" /\ wmm' = wmm]_vars

\* a request was refused for lack of the permission while the table holds
\* an Admin, a Member with an empty permissions array, a Member granted two
\* of the three permissions, and in workspace 2 users without a row
C16_Witness ==
    /\ rres = "PermissionDenied"
    /\ wmm[1, 1].role = "admin"
    /\ wmm[1, 2] = [role |-> "member", permissions |-> {}]
    /\ wmm[1, 3].role = "member" /\ wmm[1, 3].permissions = {"member.remove", "member.role.change"}
    /\ wmm[2, 1].role = "none"

\* the requests the self check is for
SelfReqs ==
    {o \in RemoveReqs \cup UpdateReqs :
        o.caller = o.target /\ (o.kind = "update" => o.role = "member")}

\* C19: a remove_member, or an update_member_role to Member, whose caller is
\* the target returns at once with "Cannot remove yourself" / "Cannot demote
\* yourself", in every state of the table (caller Admin, Member or without a
\* row, one Admin or several): it never reaches the permission check or the
\* transaction, writes nothing and takes no lock.
C19_SelfRejectedFirst ==
    [][\A p \in Procs :
          /\ \A o \in SelfReqs :
                ( /\ rpc[p] = "idle"
                  /\ \A q \in Procs \ {p} : rpc'[q] = rpc[q]
                  /\ route_begin(p, o) ) =>
                      /\ rpc'[p] = "idle"
                      /\ rres' = (IF o.kind = "remove" THEN "CannotRemoveYourself"
                                                      ELSE "CannotDemoteYourself")
                      /\ wmm' = wmm
                      /\ lock' = lock
          /\ rpc'[p] # "idle" =>
                ~ ( /\ rop'[p].caller = rop'[p].target
                    /\ rop'[p].kind = "update" => rop'[p].role = "member" )]_vars

\* the self error was returned while user 1 is the only Admin and user 3
\* has no row
C19_Witness ==
    /\ rres \in {"CannotRemoveYourself", "CannotDemoteYourself"}
    /\ admin_rows(1) = {1}
    /\ wmm[1, 3].role = "none"

(* ====================================================================== *)
(* Requests on a pair without a membership row                            *)
(* ====================================================================== *)

\* the service call that ran alone on a pair without a row returned
\* MemberNotFound and left workspace_members as it was, whatever role id
\* the call carried
NotFoundInService ==
    (SerialDone /\ tsnap.op.kind \in {"update", "remove"} /\ PreRows = {}) =>
        tres = "MemberNotFound" /\ members = tsnap.members

\* C20 as stated: in the service, and in the remote routes, every
\* role-change and removal of a pair without a row returns MemberNotFound
\* and changes no membership.
C20_AlwaysMemberNotFound ==
    [][/\ NotFoundInService'
       /\ \A p \in Procs : \A o \in RemoveReqs \cup UpdateReqs :
             (wmm[o.ws, o.target].role = "none" /\ MemberReturns(p, o)) =>
                 rres' = "MemberNotFound" /\ wmm' = wmm]_vars

\* C20, amended: the service returns MemberNotFound for a pair without a
\* row, also when the role id does not exist. In the remote routes such a
\* request changes no membership and returns MemberNotFound once it is past
\* the self check and the permission check: a caller who is the target of
\* a removal or of a change to Member gets the cannot-act-on-yourself error
\* and a caller without the permission gets PermissionDenied.
C20_MemberNotFound ==
    [][/\ NotFoundInService'
       /\ \A p \in Procs :
             ( /\ rpc[p] \in {"select_target", "lock_target"} /\ rpc'[p] # rpc[p]
               /\ wmm[rop[p].ws, rop[p].target].role = "none" ) =>
                   rpc'[p] = "idle" /\ rres' = "MemberNotFound" /\ wmm' = wmm
       /\ \A p \in Procs : \A o \in RemoveReqs \cup UpdateReqs :
             (wmm[o.ws, o.target].role = "none" /\ MemberReturns(p, o)) =>
                 /\ wmm' = wmm
                 /\ IF o.caller = o.target /\ (o.kind = "update" => o.role = "member")
                    THEN rres' = self_error(o)
                    ELSE rres' \in {"MemberNotFound", "PermissionDenied"}]_vars

\* update_member_role for user 2, who has no row, with a role id that has
\* no role row, returned MemberNotFound
C20_Witness ==
    /\ SerialDone
    /\ tsnap.op.kind = "update" /\ tsnap.op.user = 2 /\ tsnap.op.role = NoSuchRole
    /\ PreRows = {}
    /\ tres = "MemberNotFound"

(* ====================================================================== *)
(* Own-resource checks and the permission middleware                      *)
(* ====================================================================== *)

\* C29: can_access_task / can_edit_task / can_delete_task answer true
\* exactly when the role holds TaskRead / TaskUpdate / TaskDelete or the
\* Own* permission of the same verb (the ownership check being always
\* true): edit and delete are true for Admin and Member and false for
\* Viewer, access is true for the three roles.
C29_OwnTaskChecks ==
    /\ auth.call = "can_access_task" =>
          /\ auth.result <=> ( \/ <<"", "Task", "Read">> \in permissions(auth.role)
                               \/ <<"Own", "Task", "Read">> \in permissions(auth.role) )
          /\ auth.result
    /\ auth.call = "can_edit_task" =>
          /\ auth.result <=> ( \/ <<"", "Task", "Update">> \in permissions(auth.role)
                               \/ <<"Own", "Task", "Update">> \in permissions(auth.role) )
          /\ auth.result <=> auth.role \in {"Admin", "Member"}
    /\ auth.call = "can_delete_task" =>
          /\ auth.result <=> ( \/ <<"", "Task", "Delete">> \in permissions(auth.role)
                               \/ <<"Own", "Task", "Delete">> \in permissions(auth.role) )
          /\ auth.result <=> auth.role \in {"Admin", "Member"}

\* a Member, who holds OwnTaskUpdate and not TaskUpdate, may edit the task
C29_Witness ==
    /\ auth.call = "can_edit_task" /\ auth.role = "Member"
    /\ <<"", "Task", "Update">> \notin permissions("Member")
    /\ auth.result

\* C30: require_permission runs the next handler exactly when the role of
\* the request's AuthContext holds the permission and otherwise answers
\* FORBIDDEN without running it; a request without an AuthContext is
\* judged as role Admin with no user id and is forwarded for every
\* permission.
C30_RequirePermission ==
    auth.call = "require_permission" =>
        LET role == IF auth.extension = <<>> THEN "Admin" ELSE auth.extension[1].role
            held == auth.perms[1] \in permissions(role)
        IN  /\ auth.result.next_ran <=> held
            /\ auth.result.status = (IF held THEN "Next" ELSE "FORBIDDEN")
            /\ auth.extension = <<>> => auth.result = [status |-> "Next", next_ran |-> TRUE]

\* a request without an AuthContext passed the middleware of AdminAccess
C30_Witness ==
    /\ auth.call = "require_permission"
    /\ auth.extension = <<>>
    /\ auth.perms = << <<"", "Admin", "Access">> >>
    /\ auth.result.next_ran

(* ====================================================================== *)
(* The role store                                                         *)
(* ====================================================================== *)

\* C21: deleting a role with is_system = true fails, signaling
\* SystemRoleDelete, and the role remains in the store; so the four system
\* roles exist in every state reachable from the seeded state.
C21_SystemRoleDelete ==
    /\ [](\A id \in SystemRoleIds : role_exists(id))
    /\ [][\A p \in Procs : \A id \in RoleIdInputs :
             (tpc[p] = "idle" /\ role_exists(id) /\ find_by_id(id).is_system
                 /\ role_delete(p, id))
             => (tres' = "SystemRoleDelete" /\ roles' = roles)]_vars

\* C22: no operation of the role store changes the name, the description or
\* the is_system flag of a role whose is_system is true.
C22_SystemRolesImmutable ==
    [][\A r \in roles :
          r.is_system =>
             \E r2 \in roles' :
                /\ r2.id = r.id /\ r2.name = r.name
                /\ r2.description = r.description /\ r2.is_system]_vars

\* C23: Role::update is a partial update. When it writes, name and
\* description are the supplied value where the request supplies one and
\* otherwise the value the role had when the call read it; id, is_system
\* and created_at keep their values and no other role changes. A call that
\* does not return Ok changes nothing, and an id with no role gives
\* RowNotFound.
C23_PartialUpdate ==
    [][\A p \in Procs :
          /\ (tpc[p] = "role_update" /\ tpc'[p] = "idle") =>
                IF tres' = "Ok"
                THEN LET data == top[p].data
                         existing == tmember[p]
                         new == CHOOSE r \in roles' : r.id = top[p].id
                     IN  /\ new.name = (IF data.name # <<>> THEN data.name[1] ELSE existing.name)
                         /\ new.description = (IF data.description # <<>> THEN data.description
                                               ELSE existing.description)
                         /\ new.id = existing.id
                         /\ new.is_system = existing.is_system
                         /\ new.created_at = existing.created_at
                         /\ {r \in roles' : r.id # new.id} = {r \in roles : r.id # new.id}
                ELSE roles' = roles
          /\ \A id \in RoleIdInputs : \A data \in UpdateRole :
                (tpc[p] = "idle" /\ role_update_find(p, id, data)) =>
                   /\ roles' = roles
                   /\ ~role_exists(id) <=> (tpc'[p] = "idle" /\ tres' = "RowNotFound")]_vars

\* an update that supplied a name and no description has written: the role
\* carries the new name and the description it had
C23_Witness ==
    /\ tres = "Ok"
    /\ \E r \in roles :
          /\ r.name = "Auditor" /\ r.description = <<"system role">>
          /\ r.updated_at > r.created_at

(* ====================================================================== *)
(* Invitation e-mail and the accepted membership                          *)
(* ====================================================================== *)

\* C24: in invite_member the notifier is called only after the invitation
\* row has been committed, by a handler that holds no transaction and no
\* row lock, and the request then answers 201; a request whose permission
\* check or create_invitation fails never reaches the notifier.
C24_MailAfterCommit ==
    [][/\ mailed' # mailed =>
             \E p \in Procs :
                /\ rpc[p] = "invite_mail" /\ rpc'[p] = "idle" /\ rres' = "Created"
                /\ mailed' = mailed \cup {rop[p].inv}
                /\ rop[p].inv \in InvIds /\ rop[p].inv < nextInv
                /\ \A k \in Keys : lock[k] # p
                /\ \A i \in InvIds : ilock[i] # p
       /\ \A p \in Procs :
             (rpc[p] \in {"invite_permission", "invite_admin", "invite_insert"}
                 /\ rpc'[p] = "idle")
             => /\ rres' \in {"PermissionDenied", "AdminAccessRequired",
                              "PendingInvitationExists"}
                /\ mailed' = mailed
                /\ nextInv' = nextInv]_vars

\* one invitation was stored and mailed, and a later invite_member for the
\* same address was refused without an e-mail
C24_Witness ==
    /\ mailed = {1}
    /\ nextInv = 2
    /\ rres = "PendingInvitationExists"

\* C25: after a successful accept_invitation(token, principal) a membership
\* row exists for (invitation.workspace_id, principal) with the
\* invitation's role that records the invitation's inviter, and the
\* invitation is accepted; both changes are committed in one step.
C25_AcceptRecordsInviter ==
    [][\A p \in Procs :
          (rpc[p] = "accept_commit" /\ rpc'[p] = "idle" /\ rres' = "Ok") =>
             LET i == rop[p].inv
                 row == wmm'[inv[i].ws, rop[p].caller]
             IN  /\ inv'[i].status = "accepted"
                 /\ row.role = inv[i].role
                 /\ "invited_by" \in DOMAIN row
                 /\ row.invited_by = inv[i].invited_by]_vars

(* ====================================================================== *)
(* Team creation, role references and the frame of a membership           *)
(* ====================================================================== *)

\* C26: when create_team returns successfully the new team has exactly one
\* membership, the creator's, with the Owner system role and no inviter; so
\* the team has at least one Owner.
C26_CreateTeamOneOwner ==
    [][\A p \in Procs :
          (tpc[p] = "ct_member" /\ tpc'[p] = "idle" /\ tres' = "Ok") =>
             LET rows == {m \in members' : m.team = top[p].team}
             IN  /\ Cardinality(rows) = 1
                 /\ \A m \in rows :
                       m.user = top[p].user /\ m.role = OWNER /\ m.invited_by = NoUser
                 /\ \E m \in rows : m.role = OWNER]_vars

\* every membership row's role_id references a stored role
RolesReferenced == \A m \in members : role_exists(m.role)

\* the role check of an add_member or update_member_role in flight finds no
\* role: the call fails with RoleNotFound and writes nothing
RoleCheckFails(p) ==
    (tpc[p] \in {"am_role", "um_role"} /\ tpc'[p] # tpc[p] /\ ~role_exists(top[p].role))
        => (tpc'[p] = "idle" /\ tres' = "RoleNotFound" /\ members' = members)

\* C27: every membership row's role_id references a role of the role store
\* in every reachable state; add_member and update_member_role with a role
\* id that does not exist fail with RoleNotFound and write nothing; deleting
\* a custom role that a membership references leaves no dangling role_id.
C27_RoleNotFoundAlways ==
    /\ []RolesReferenced
    /\ [][\A p \in Procs :
             /\ RoleCheckFails(p)
             /\ \A o \in AddOps \cup UpdateOps :
                   (tpc[p] = "idle" /\ ~role_exists(o.role)
                       /\ (svc_add_member_begin(p, o) \/ svc_update_member_role_begin(p, o)))
                   => /\ members' = members
                      /\ tpc'[p] = "idle" => tres' = "RoleNotFound"]_vars

\* C27 as it holds: every membership row's role_id references a stored role
\* in every reachable state. A call with a role id that does not exist
\* writes nothing and fails: add_member with TeamNotFound when the team does
\* not exist, update_member_role with MemberNotFound when the target has no
\* row, both checked before the role, and otherwise with RoleNotFound at the
\* role check; a write whose role was deleted after the check is refused.
C27_RoleReferences ==
    /\ []RolesReferenced
    /\ [][\A p \in Procs :
             /\ RoleCheckFails(p)
             /\ \A o \in AddOps \cup UpdateOps :
                   (tpc[p] = "idle" /\ ~role_exists(o.role)
                       /\ (svc_add_member_begin(p, o) \/ svc_update_member_role_begin(p, o)))
                   => /\ members' = members
                      /\ IF o.kind = "add"
                         THEN IF o.team \in teams THEN tpc'[p] = "am_role"
                              ELSE tpc'[p] = "idle" /\ tres' = "TeamNotFound"
                         ELSE IF \E m \in members : m.team = o.team /\ m.user = o.user
                              THEN tpc'[p] = "um_role"
                              ELSE tpc'[p] = "idle" /\ tres' = "MemberNotFound"
             /\ (tpc[p] \in {"am_create", "um_update"} /\ tpc'[p] = "idle"
                    /\ ~role_exists(top[p].role))
                => (tres' = "Database" /\ members' = members)]_vars

\* a member holds the custom role, and a Role::delete of it was refused
C27_Witness ==
    /\ tres = "Database"
    /\ \A p \in Procs : tpc[p] = "idle"
    /\ \E m \in members : m.role = NoSuchRole
    /\ \E r \in roles : r.id = NoSuchRole /\ ~r.is_system

\* C28: a membership row is mutated only in its role. No step changes the
\* team, user, invited_by or joined_at of a row that stays; only a
\* create, update_role or delete statement changes the rows at all, or
\* a delete_team / delete_by_team_and_user, which only removes rows; a
\* successful update_member_role changes the role of the target row and
\* nothing else, and a successful remove_member deletes the target row and
\* nothing else, in the service and in the remote routes.
C28_OnlyRoleMutates ==
    [][/\ \A m \in members : \A m2 \in members' :
             m2.id = m.id => [m2 EXCEPT !.role = m.role] = m
       /\ members' # members =>
             \/ \E p \in Procs : tpc[p] \in {"ct_member", "am_create", "um_update", "rm_delete"}
             \/ /\ tsnap'.op.kind \in {"delete_team", "delete_by_team_and_user"}
                /\ tsnap'.members = members
                /\ members' \subseteq members
                /\ \A m \in members \ members' :
                      /\ m.team = tsnap'.op.team
                      /\ tsnap'.op.kind = "delete_by_team_and_user" => m.user = tsnap'.op.user
       /\ \A p \in Procs :
             /\ (tpc[p] = "um_update" /\ tpc'[p] = "idle" /\ tres' = "Ok") =>
                   \E old \in members :
                      /\ old.team = top[p].team /\ old.user = top[p].user
                      /\ members' = (members \ {old}) \cup {[old EXCEPT !.role = top[p].role]}
             /\ (tpc[p] = "rm_delete" /\ tpc'[p] = "idle" /\ tres' = "Ok") =>
                   \E old \in members :
                      /\ old.team = top[p].team /\ old.user = top[p].user
                      /\ members' = members \ {old}
             /\ (rpc[p] = "commit" /\ rpc'[p] = "idle" /\ rres' = "Ok") =>
                   LET k == <<rop[p].ws, rop[p].target>>
                   IN  /\ \A k2 \in Keys \ {k} : wmm'[k2] = wmm[k2]
                       /\ wmm'[k] = (IF rop[p].kind = "remove" THEN NoMember
                                     ELSE [wmm[k] EXCEPT !.role = rop[p].role])]_vars

\* after the clock advanced, update_member_role gave a member who joined
\* earlier the requested role
C28_Witness ==
    /\ SerialDone /\ tres = "Ok" /\ tsnap.op.kind = "update"
    /\ now > 0
    /\ \E m \in members :
          /\ m.team = tsnap.op.team /\ m.user = tsnap.op.user
          /\ m.role = tsnap.op.role /\ m.joined_at < now
          /\ \E m0 \in tsnap.members : m0.id = m.id /\ m0.role # m.role

(* ====================================================================== *)
(* Permission assertions, tokens and re-invitation                        *)
(* ====================================================================== *)

\* C31: assert_permission (remote) and WorkspaceTeamService::require_permission
\* return Ok exactly when the has_permission query returns true and
\* otherwise PermissionDenied, in the service with the permission key; a
\* principal without a membership is always denied; neither changes
\* membership, role or invitation state. The remote query is two
\* statements: the role read, which lets an Admin pass, and for anyone
\* else the EXISTS over the permissions array.
C31_AssertPermission ==
    [][\A p \in Procs :
          /\ (tpc[p] = "rp_query" /\ tpc'[p] = "idle") =>
                LET o == top[p]
                    rows == {m \in members : m.team = o.team /\ m.user = o.user}
                    granted == \E m \in rows : <<m.role, o.key>> \in role_permissions
                IN  /\ tres' = (IF granted THEN "Ok" ELSE PermissionDenied(o.key))
                    /\ rows = {} => tres' # "Ok"
                    /\ UNCHANGED <<teams, roles, members, wmm, inv>>
          /\ (rpc[p] = "idle" /\ rpc'[p] \in {"select_target", "permission"}) =>
                /\ rpc'[p] = "select_target" <=> wmm[rop'[p].ws, rop'[p].caller].role = "admin"
                /\ UNCHANGED <<teams, roles, members, wmm, inv>>
          /\ (rpc[p] = "permission" /\ rpc'[p] # "permission") =>
                LET row == wmm[rop[p].ws, rop[p].caller]
                    granted == row.role # "none" /\ required_permission(rop[p]) \in row.permissions
                IN  /\ IF granted THEN rpc'[p] = "select_target"
                       ELSE rpc'[p] = "idle" /\ rres' = "PermissionDenied"
                    /\ row.role = "none" => rres' = "PermissionDenied"
                    /\ UNCHANGED <<teams, roles, members, wmm, inv>>]_vars

\* require_permission refused a member of team 1 for team 2, where the
\* user has no membership
C31_Witness ==
    /\ tres = PermissionDenied("task.read")
    /\ \E m \in members : m.team = 1 /\ m.user = 2 /\ <<m.role, "task.read">> \in role_permissions
    /\ ~\E m \in members : m.team = 2 /\ m.user = 2

\* C32: the token is the sole capability needed to accept. An accept that
\* holds the lock of a pending, unexpired invitation and whose caller is
\* not a member goes on to the upsert and commits the caller as a member
\* with the invitation's role, whatever the caller's e-mail address;
\* fetch-by-token answers with the invitation's workspace, role and expiry
\* whenever the row is stored, with no caller identity, and changes nothing.
C32_TokenIsCapability ==
    [][\A p \in Procs :
          /\ (rpc[p] = "accept_lock" /\ rpc'[p] # "accept_lock"
                 /\ inv[rop[p].inv].status = "pending" /\ ~(inv[rop[p].inv].expires_at < now))
             => rpc'[p] = "accept_is_member"
          /\ (rpc[p] = "accept_is_member" /\ rpc'[p] # "accept_is_member"
                 /\ wmm[inv[rop[p].inv].ws, rop[p].caller].role = "none")
             => rpc'[p] = "accept_add"
          /\ rpc[p] \in {"accept_add", "accept_mark"}
             => rpc'[p] \in {"accept_add", "accept_mark", "accept_commit"}
          /\ (rpc[p] = "accept_commit" /\ rpc'[p] # "accept_commit")
             => /\ rres' = "Ok"
                /\ wmm'[inv[rop[p].inv].ws, rop[p].caller].role = inv[rop[p].inv].role
          /\ \A o \in GetReqs :
                (rpc[p] = "idle" /\ get_invitation(p, o)) =>
                   /\ UNCHANGED <<wmm, inv, acceptOk, mailed, nextInv>>
                   /\ IF inv[o.inv].status # "none"
                      THEN /\ rres' = "Found"
                           /\ Len(rlist') = 1
                           /\ rlist'[1].workspace_id = inv[o.inv].ws
                           /\ rlist'[1].role = inv[o.inv].role
                           /\ rlist'[1].expires_at = inv[o.inv].expires_at
                      ELSE rres' = "InvitationNotFound"]_vars

\* user 3, whose address is not the invited one, became a member through
\* the token of the invitation sent to alice@example.com
C32_Witness ==
    /\ rres = "Ok"
    /\ \E i \in InvIds :
          /\ inv[i].status = "accepted" /\ acceptOk[i] = 1
          /\ inv[i].email # email_of(3)
          /\ wmm[inv[i].ws, 3].role = inv[i].role
          /\ wmm[inv[i].ws, 2].role = "none"

\* an accept at its is_member check whose caller has a membership with a
\* role other than the invitation's
reinvited(p) ==
    /\ rpc[p] = "accept_is_member"
    /\ wmm[inv[rop[p].inv].ws, rop[p].caller].role \notin {"none", inv[rop[p].inv].role}

\* C33: re-invitation with a different role is honored: when a principal
\* who has a membership accepts a pending, unexpired invitation with
\* another role, the accept goes on to the upsert and the principal's role
\* becomes the invitation's.
C33_ReinvitationHonored ==
    [][\A p \in Procs :
          (reinvited(p) /\ rpc'[p] # "accept_is_member") => rpc'[p] = "accept_add"]_vars

\* C33 as the code has it: such an accept rolls back and is refused as
\* "already a member"; it leaves the principal's row and the invitation,
\* which stays pending, as they are;
\* the upsert that a committing accept applies sets the caller's role to
\* the invitation's, whether or not a row is there by then.
C33_MemberKeepsRole ==
    [][\A p \in Procs :
          /\ (reinvited(p) /\ rpc'[p] # "accept_is_member") =>
                /\ rpc'[p] = "accept_rollback"
                /\ wmm'[inv[rop[p].inv].ws, rop[p].caller] = wmm[inv[rop[p].inv].ws, rop[p].caller]
                /\ wmm'[inv[rop[p].inv].ws, rop[p].caller].role # inv[rop[p].inv].role
                /\ inv'[rop[p].inv].status = "pending"
          /\ (rpc[p] = "accept_rollback" /\ rpc'[p] # "accept_rollback") =>
                /\ rpc'[p] = "idle" /\ rres' = "AlreadyMember"
                /\ wmm' = wmm
                /\ inv'[rop[p].inv].status = "pending"
          /\ (rpc[p] = "accept_commit" /\ rpc'[p] # "accept_commit") =>
                /\ wmm'[inv[rop[p].inv].ws, rop[p].caller].role = inv[rop[p].inv].role
                /\ \A k \in Keys : k # <<inv[rop[p].inv].ws, rop[p].caller>> => wmm'[k] = wmm[k]]_vars

\* the Admin who sent the invitations presented the token of the Member
\* invitation: the accept found them a member, with another role than the
\* invitation's, and is at its rollback; the Admin is still Admin and the
\* invitation still pending
C33_Witness ==
    \E p \in Procs :
        /\ rpc[p] = "accept_rollback"
        /\ rop[p].caller = 1
        /\ inv[rop[p].inv].role = "member" /\ inv[rop[p].inv].status = "pending"
        /\ wmm[inv[rop[p].inv].ws, 1].role = "admin"

\* C34: an accept never changes the role of a principal who has a
\* membership row when the acceptance commits, and never leaves a
\* workspace that had an Admin without one.
C34_AcceptKeepsExistingRole ==
    [][\A p \in Procs :
          (rpc[p] = "accept_commit" /\ rpc'[p] # "accept_commit") =>
              /\ wmm[inv[rop[p].inv].ws, rop[p].caller].role # "none"
                 => wmm'[inv[rop[p].inv].ws, rop[p].caller].role
                        = wmm[inv[rop[p].inv].ws, rop[p].caller].role
              /\ admin_rows(inv[rop[p].inv].ws) # {}
                 => \E u \in Users : wmm'[inv[rop[p].inv].ws, u].role = "admin"]_vars

\* the positions of a remove_member / update_member_role inside its transaction
InTransaction == {"select_target", "lock_target", "select_admins", "lock_admins", "write", "commit"}

\* the caller of p's request is, as committed now, a member who is Admin or
\* holds the permission the request needs
caller_permitted_now(p) ==
    LET row == wmm[rop[p].ws, rop[p].caller]
    IN  /\ row.role # "none"
        /\ \/ row.role = "admin"
           \/ (IF rop[p].kind = "remove" THEN "member.remove" ELSE "member.role.change")
                  \in row.permissions

\* C35: a remove_member or update_member_role that commits its write was
\* requested by a principal who at the moment of the commit is a member of
\* the workspace and is Admin or holds the required permission.
C35_PermittedAtCommit ==
    [][\A p \in Procs :
          (rpc[p] = "commit" /\ rpc'[p] # "commit") => caller_permitted_now(p)]_vars

\* C35 as the code has it: the caller is a member who is Admin or holds the
\* required permission when the route's permission check answers, which is
\* before the transaction; the transaction is entered only through that
\* check, keeps its request, and commits without checking the caller again.
C35_PermittedAtCheck ==
    [][\A p \in Procs :
          /\ (rpc[p] = "idle" /\ rpc'[p] = "select_target")
                => wmm[rop'[p].ws, rop'[p].caller].role = "admin"
          /\ (rpc[p] = "permission" /\ rpc'[p] = "select_target")
                => caller_permitted_now(p) /\ rop'[p] = rop[p]
          /\ rpc'[p] \in InTransaction => rpc[p] \in InTransaction \cup {"idle", "permission"}
          /\ rpc'[p] \in InTransaction \ {"select_target"}
                => rpc[p] \in InTransaction /\ rop'[p] = rop[p]
          /\ (rpc[p] = "commit" /\ rpc'[p] # "commit")
                => rres' = "Ok" /\ wmm' = written(rop[p])]_vars

\* a transaction has issued its write and is at its commit while its
\* caller, removed by a request that committed in between, has no
\* membership any more
C35_Witness ==
    \E p \in Procs :
        /\ rpc[p] = "commit"
        /\ wmm[rop[p].ws, rop[p].caller].role = "none"
        /\ wmm[rop[p].ws, rop[p].target].role # "none"

\* p's revoke_invitation deletes the row in this step
RevokeSucceeds(p) ==
    rpc[p] = "revoke_lock" /\ rpc'[p] = "idle" /\ rres' = "NoContent"

\* C36: a successful revoke and a successful accept of one invitation
\* exclude each other: a revoke that succeeds finds the invitation not
\* accepted, with no membership created through its token, and none is
\* created through it afterwards.
C36_RevokeExcludesAccept ==
    [][/\ \A p \in Procs :
            RevokeSucceeds(p) =>
               /\ inv[rop[p].inv].status # "accepted"
               /\ acceptOk[rop[p].inv] = 0
       /\ \A i \in InvIds :
            (inv[i].status = "none" /\ i < nextInv) => acceptOk'[i] = acceptOk[i]]_vars

\* C36 as the code has it: once revoke_invitation has deleted the row, no
\* accept of its token succeeds and no membership is created through it:
\* every accept that returns then fails as not found and writes nothing. The
\* DELETE does not look at the status, so a revoke that succeeds may delete
\* an invitation that was accepted; the membership that accept created
\* stays.
C36_NoAcceptAfterRevoke ==
    [][/\ \A i \in InvIds :
            (inv[i].status = "none" /\ i < nextInv) =>
               /\ acceptOk'[i] = acceptOk[i]
               /\ inv'[i] = inv[i]
               /\ \A p \in Procs :
                     AcceptReturns(p, i) =>
                        rres' = "InvitationNotFoundOrUsed" /\ wmm' = wmm
       /\ \A p \in Procs :
            RevokeSucceeds(p) =>
               /\ inv[rop[p].inv].status \in {"pending", "accepted", "expired"}
               /\ ilock[rop[p].inv] = 0
               /\ inv'[rop[p].inv] = NoInv
               /\ wmm' = wmm]_vars

\* user 2's accept found token 1 pending and waited for the row; the revoke
\* deleted it first, and the accept has just failed: nobody joined
C36_Witness ==
    /\ rres = "InvitationNotFoundOrUsed"
    /\ inv[1].status = "none" /\ nextInv = 2
    /\ acceptOk[1] = 0
    /\ \A u \in Users \ {1} : wmm[1, u].role = "none"

\* C37: concurrent remove_member / update_member_role transactions of one
\* workspace never wait for each other's row locks in a cycle, so none of
\* them ends as the victim of a deadlock.
C37_NoLockCycle ==
    /\ \A p \in Procs : p \notin waits_on(p, NumProcs)
    /\ rres # "DatabaseError"

\* C38: create_team is atomic: when the insert of the creator's Owner
\* membership fails, the team row inserted before it does not persist, so a
\* team whose create_team has returned is never without an Owner membership
\* because of it.
C38_CreateTeamAtomic ==
    [][\A p \in Procs :
          (tpc[p] = "ct_member" /\ tpc'[p] = "idle" /\ tres' # "Ok") =>
             \/ ~team_exists(top[p].team)'
             \/ \E m \in members' : m.team = top[p].team /\ m.role = OWNER]_vars

\* request o asks update_member_role to make its own caller an Admin
self_promotion(o) == o.kind = "update" /\ o.caller = o.target /\ o.role = "admin"

\* C39: a principal who is not an Admin of a workspace never becomes its
\* Admin through an update_member_role request of their own. Read for the
\* principals who hold no explicit permission: the commit of a request of
\* such a caller about their own row never turns a row that is not an
\* Admin row into one.
C39_NoSelfPromotion ==
    [][\A p \in Procs :
          ( /\ rpc[p] = "commit" /\ rpc'[p] = "idle" /\ rop[p].kind = "update"
            /\ wmm[rop[p].ws, rop[p].caller].permissions = {}
            /\ wmm[rop[p].ws, rop[p].target].role # "admin"
            /\ wmm'[rop[p].ws, rop[p].target].role = "admin" )
          => rop[p].caller # rop[p].target]_vars

\* C39 as the code has it: the self check lets a request for one's own
\* promotion through; a caller who is not an Admin and does not hold
\* member.role.change when the permission check answers is refused and
\* nothing is written; a caller who passes the check enters the
\* transaction, which does not check the caller again: its commit makes
\* the caller an Admin, also when the caller was demoted in between.
C39_SelfPromotionNeedsPermission ==
    [][\A p \in Procs :
          /\ \A o \in UpdateReqs :
                (self_promotion(o) /\ rpc[p] = "idle" /\ route_begin(p, o)) =>
                    /\ rpc'[p] = IF wmm[o.ws, o.caller].role = "admin"
                                 THEN "select_target" ELSE "permission"
                    /\ wmm' = wmm
          /\ (rpc[p] = "permission" /\ rpc'[p] # "permission" /\ self_promotion(rop[p])) =>
                IF "member.role.change" \in wmm[rop[p].ws, rop[p].caller].permissions
                   /\ wmm[rop[p].ws, rop[p].caller].role # "none"
                THEN rpc'[p] = "select_target" /\ wmm' = wmm
                ELSE rpc'[p] = "idle" /\ rres' = "PermissionDenied" /\ wmm' = wmm
          /\ (rpc[p] = "commit" /\ rpc'[p] # "commit" /\ self_promotion(rop[p])) =>
                /\ rres' = "Ok"
                /\ wmm'[rop[p].ws, rop[p].caller].role = "admin"]_vars

\* an Admin who holds no explicit permission asked for the role Admin for
\* themself and passed the permission check as Admin; another request then
\* demoted them to Member, and their own transaction has written and is at
\* its commit
C39_Witness ==
    \E p \in Procs :
        /\ rpc[p] = "commit" /\ self_promotion(rop[p])
        /\ wmm[rop[p].ws, rop[p].caller].role = "member"
        /\ wmm[rop[p].ws, rop[p].caller].permissions = {}
        /\ rop[p].caller \in {1, 2}

\* C40: update_member_role with the role the target has is a no-op that
\* reports success: the step that reads the locked row returns at once,
\* without the last-admin check and without a write, holding no lock, and
\* its response is the target's unchanged (user_id, role), also for a sole
\* Admin set to Admin. An update that commits leaves the target with the
\* requested role, so the same request applied again is such a no-op.
C40_SameRoleNoOp ==
    [][\A p \in Procs :
          /\ ( /\ rpc[p] = "lock_target" /\ rpc'[p] # "lock_target"
               /\ rop[p].kind = "update"
               /\ wmm[rop[p].ws, rop[p].target].role = rop[p].role ) =>
                   /\ rpc'[p] = "idle"
                   /\ rres' = "Ok"
                   /\ wmm' = wmm
                   /\ update_response(rop[p])
                        = <<rop[p].target, wmm'[rop[p].ws, rop[p].target].role>>
                   /\ \A k \in Keys : lock'[k] # p
          /\ (rpc[p] = "commit" /\ rpc'[p] # "commit" /\ rop[p].kind = "update") =>
                   /\ rres' = "Ok"
                   /\ wmm'[rop[p].ws, rop[p].target].role = rop[p].role
                   /\ update_response(rop[p])
                        = <<rop[p].target, wmm'[rop[p].ws, rop[p].target].role>>]_vars

\* user 1 is the only member left of workspace 1 and its sole Admin; the
\* request of user 1 to give user 1 the role Admin has passed the self check
\* and the permission check, no other request is in flight and the row's
\* lock is free: the handler's next step reads the locked row and returns
\* success without a write
C40_Witness ==
    \E p \in Procs :
        /\ rpc[p] = "lock_target"
        /\ rop[p].kind = "update" /\ rop[p].ws = 1 /\ rop[p].target = 1 /\ rop[p].role = "admin"
        /\ wmm[1, 1].role = "admin"
        /\ admin_rows(1) = {1}
        /\ \A u \in Users \ {1} : wmm[1, u].role = "none"
        /\ lock[1, 1] = 0
        /\ \A q \in Procs \ {p} : rpc[q] = "idle"
        /\ ENABLED (route_lock_target(p) /\ rpc'[p] = "idle" /\ rres' = "Ok" /\ wmm' = wmm)

====
